---------------------------- MODULE Spec2Model ----------------------------
(***************************************************************************)
(* Lexia: hybrid retrieval (Qdrant dense search + Whoosh BM25 + reciprocal *)
(* rank fusion + cross-encoder rerank + diversity head) and the ingestion  *)
(* chunker that feeds the two indexes.                                     *)
(*                                                                         *)
(* Modelled sources: src/Local/utils/retrieve.py, src/Local/utils/ingest.py*)
(* and src/Local/main.py.                                                  *)
(*                                                                         *)
(* Conventions.  A Python list is a sequence, a dict is a record or a      *)
(* function, a str is a sequence of one-character strings (so that         *)
(* len(), slicing, split() and strip() are computed, not assumed).         *)
(* A chunk id "{doc_id}:{chunk_index}" is the record                       *)
(* [kind |-> "cid", ...] and the Qdrant point id uuid5(NAMESPACE_URL,      *)
(* "{doc_id}:{chunk_index}") is [kind |-> "uuid5", ...]: the two are       *)
(* different strings for every chunk.                                      *)
(***************************************************************************)
EXTENDS Integers, Sequences, FiniteSets, TLC

\* ------------------------------------------------------------------------
\* Bounds of the model
\* ------------------------------------------------------------------------

\* longest hit list a backend returns in the fusion / diversity harnesses
MaxHits == 3

\* largest final_k (limit) passed to _diverse_head / retrieve
MaxLimit == 3

\* ------------------------------------------------------------------------
\* Program constants
\* ------------------------------------------------------------------------

\* retrieve.py:118  rrf_fuse(d, s, k=60)
k_rrf == 60

\* retrieve.py:67  rd.get(pid, 10_000)
AbsentRank == 10000

\* ------------------------------------------------------------------------
\* Python helpers
\* ------------------------------------------------------------------------

Min(a, b) == IF a <= b THEN a ELSE b

Max(a, b) == IF a >= b THEN a ELSE b

Range(seq) == {seq[i] : i \in DOMAIN seq}

\* dict.get(key, default) on a record
Get(rec, key, default) == IF key \in DOMAIN rec THEN rec[key] ELSE default

\* seq[:n] with Python's meaning of a negative n
SliceTo(seq, n) ==
    IF n >= 0 THEN SubSeq(seq, 1, Min(n, Len(seq)))
    ELSE SubSeq(seq, 1, Max(Len(seq) + n, 0))

\* all sequences without repetition over S of length <= n
RECURSIVE InjSeqs(_, _)
InjSeqs(S, n) ==
    IF n = 0 THEN {<<>>}
    ELSE LET shorter == InjSeqs(S, n - 1)
         IN  shorter \cup
             UNION {{Append(q, x) : x \in S \ Range(q)} :
                    q \in {p \in shorter : Len(p) = n - 1}}

\* all orderings of the finite set S
Perms(S) == {q \in InjSeqs(S, Cardinality(S)) : Len(q) = Cardinality(S)}

\* ------------------------------------------------------------------------
\* Identifiers (ingest.py:475, ingest.py:503)
\* ------------------------------------------------------------------------

DocIds == {"d1", "d2"}

\* ingest.py:503  cid = f"{doc_id}:{c['chunk_index']}"
WhooshId(doc_id, chunk_index) ==
    [kind |-> "cid", doc_id |-> doc_id, chunk_index |-> chunk_index]

\* ingest.py:475  str(uuid.uuid5(uuid.NAMESPACE_URL, f"{doc_id}:{chunk_index}"))
\* a name-based hash: injective on the names of the model, never of the
\* form "a:b"
Uuid5(doc_id, chunk_index) ==
    [kind |-> "uuid5", doc_id |-> doc_id, chunk_index |-> chunk_index]

\* ------------------------------------------------------------------------
\* retrieve.py: reciprocal rank fusion
\* ------------------------------------------------------------------------

\* retrieve.py:62  {item["id"]: i for i, item in enumerate(items)}
\* (0-based; a later duplicate of an id overwrites the earlier index)
ranks(items) ==
    [pid \in {items[i].id : i \in DOMAIN items} |->
        (CHOOSE i \in DOMAIN items :
            /\ items[i].id = pid
            /\ \A j \in DOMAIN items : items[j].id = pid => j <= i) - 1]

\* retrieve.py:67  rd.get(pid, 10_000)
RankOf(rk, pid) == IF pid \in DOMAIN rk THEN rk[pid] ELSE AbsentRank

\* the score with a zero term for a side on which the id is absent
RrfScoreAlt(k, rdv, rsv) ==
    [num |-> (IF rdv = AbsentRank THEN 0 ELSE k + rsv)
             + (IF rsv = AbsentRank THEN 0 ELSE k + rdv),
     den |-> (k + rdv) * (k + rsv),
     ulp |-> 0]

\* the reciprocal of the score
RrfScoreInv(k, rdv, rsv) ==
    [num |-> (k + rdv) * (k + rsv),
     den |-> (k + rdv) + (k + rsv),
     ulp |-> 0]

\* retrieve.py:67  the rounding of the float expression
\* 1.0/(k + rd) + 1.0/(k + rs) (two rounded quotients, one rounded sum,
\* IEEE 754 binary64) among the rank pairs whose exact sums are equal.
\* With k = 60 and every rank in 0..49 (dense_top_k, bm25_top_k) or 10000,
\* two pairs of different exact sum give floats in the order of the exact
\* sums, a pair and its mirror give the same float, and of the pairs of
\* equal exact sum only these three give the larger float: (6, 39) above
\* (12, 28), (0, 45) above (10, 24), (15, 15) above (0, 40).
FloatUlp(k, rdv, rsv) ==
    IF k = 60 /\ {rdv, rsv} \in {{6, 39}, {0, 45}, {15}} THEN 1 ELSE 0

\* retrieve.py:67  1.0/(k + rd) + 1.0/(k + rs): the float, as the exact
\* fraction num/den = ((k+rd) + (k+rs)) / ((k+rd) * (k+rs)) and the
\* rounding ulp that orders the floats of one exact sum
RrfScore(k, rdv, rsv) ==
    [num |-> (k + rdv) + (k + rsv),
     den |-> (k + rdv) * (k + rsv),
     ulp |-> FloatUlp(k, rdv, rsv)]

\* comparison of two positive fractions p1/q1 and p2/q2 by their continued
\* fractions (no product leaves 32 bits): -1, 0 or 1
RECURSIVE CmpFrac(_, _, _, _)
CmpFrac(p1, q1, p2, q2) ==
    LET a1 == p1 \div q1
        a2 == p2 \div q2
        r1 == p1 % q1
        r2 == p2 % q2
    IN  IF a1 < a2 THEN -1
        ELSE IF a1 > a2 THEN 1
        ELSE IF r1 = 0 /\ r2 = 0 THEN 0
        ELSE IF r1 = 0 THEN -1
        ELSE IF r2 = 0 THEN 1
        ELSE CmpFrac(q2, r2, q1, r1)

\* comparison of two scores as floats: -1, 0 or 1
CmpScore(x, y) ==
    LET c == CmpFrac(x.num, x.den, y.num, y.den)
    IN  IF c # 0 THEN c
        ELSE IF x.ulp < y.ulp THEN -1
        ELSE IF x.ulp > y.ulp THEN 1
        ELSE 0

\* x["rrf"] > y["rrf"]
RrfGt(x, y) == CmpScore(x, y) = 1

RrfGe(x, y) == CmpScore(x, y) >= 0

\* retrieve.py:68  next(x in dense with the id) or next(x in sparse ...)
FirstWithId(items, pid) ==
    items[CHOOSE i \in DOMAIN items :
            /\ items[i].id = pid
            /\ \A j \in DOMAIN items : items[j].id = pid => i <= j]

MetaOf(dense, sparse, pid) ==
    IF \E i \in DOMAIN dense : dense[i].id = pid
    THEN FirstWithId(dense, pid)
    ELSE FirstWithId(sparse, pid)

\* {**meta, "rrf": score}
WithField(rec, key, val) ==
    [f \in DOMAIN rec \cup {key} |-> IF f = key THEN val ELSE rec[f]]

\* retrieve.py:64-66  iteration over the Python set ids = set(rd) | set(rs).
\* The order in which a set of str yields its members follows the strings'
\* hashes, which CPython salts per process, and, where hashes collide, the
\* order in which the set was filled: seed is the order of this call, an
\* enumeration of every id.
SetIter(ids, seed) == SelectSeq(seed, LAMBDA x : x \in ids)

\* retrieve.py:64  the orders in which set(rd) | set(rs) can yield the ids
\* of one call: any order, and not the same from one call to the next.
\* The sort of line 70 being stable, an order gives the fused list of the
\* order that list is in, so the orders kept here are those the sort
\* leaves in place: one for every way the ties can come out
SetOrders(dense, sparse, k) ==
    LET rd == ranks(dense)
        rs == ranks(sparse)
        sc == [pid \in DOMAIN rd \cup DOMAIN rs |->
                 RrfScore(k, RankOf(rd, pid), RankOf(rs, pid))]
    IN  {o \in Perms(DOMAIN sc) :
            \A i \in 1..(Len(o) - 1) : RrfGe(sc[o[i]], sc[o[i + 1]])}

\* retrieve.py:70  list.sort(key=rrf, reverse=True): stable, descending
RECURSIVE InsertByRrf(_, _)
InsertByRrf(sorted, x) ==
    IF sorted = <<>> THEN <<x>>
    ELSE IF RrfGt(x.rrf, sorted[Len(sorted)].rrf)
         THEN Append(InsertByRrf(SubSeq(sorted, 1, Len(sorted) - 1), x),
                     sorted[Len(sorted)])
         ELSE Append(sorted, x)

RECURSIVE SortByRrf(_)
SortByRrf(items) ==
    IF items = <<>> THEN <<>>
    ELSE InsertByRrf(SortByRrf(SubSeq(items, 1, Len(items) - 1)),
                     items[Len(items)])

\* retrieve.py:61-71
rrf_fuse(dense, sparse, k, seed) ==
    LET rd == ranks(dense)
        rs == ranks(sparse)
        ids == DOMAIN rd \cup DOMAIN rs
        order == SetIter(ids, seed)
        fused == [i \in DOMAIN order |->
                    WithField(MetaOf(dense, sparse, order[i]), "rrf",
                              RrfScore(k, RankOf(rd, order[i]),
                                          RankOf(rs, order[i])))]
    IN  SortByRrf(fused)

\* ------------------------------------------------------------------------
\* retrieve.py: diversity head
\* ------------------------------------------------------------------------

\* retrieve.py:81-84  first loop; ret = TRUE when line 84 returned
RECURSIVE FirstPass(_, _, _, _, _)
FirstPass(items, i, seen, out, limit) ==
    IF i > Len(items) THEN [out |-> out, ret |-> FALSE]
    ELSE IF items[i].doc_id \in seen
         THEN FirstPass(items, i + 1, seen, out, limit)
         ELSE LET out2 == Append(out, items[i])
              IN  IF Len(out2) = limit
                  THEN [out |-> out2, ret |-> TRUE]
                  ELSE FirstPass(items, i + 1,
                                 seen \cup {items[i].doc_id}, out2, limit)

\* retrieve.py:85-87  second loop
RECURSIVE SecondPass(_, _, _, _)
SecondPass(items, i, out, limit) ==
    IF i > Len(items) \/ Len(out) = limit THEN out
    ELSE SecondPass(items, i + 1, Append(out, items[i]), limit)

\* a second pass that visits only the items the first pass skipped
RECURSIVE SecondPassSkipped(_, _, _, _)
SecondPassSkipped(items, i, out, limit) ==
    IF i > Len(items) \/ Len(out) = limit THEN out
    ELSE IF \E j \in DOMAIN out : out[j] = items[i]
         THEN SecondPassSkipped(items, i + 1, out, limit)
         ELSE SecondPassSkipped(items, i + 1, Append(out, items[i]), limit)

\* _diverse_head without the seen-set test of line 82
DiverseHeadNoSeen(items, limit) == SliceTo(items, limit)

\* retrieve.py:79-88
_diverse_head(items, limit) ==
    LET p1 == FirstPass(items, 1, {}, <<>>, limit)
    IN  IF p1.ret THEN p1.out
        ELSE SliceTo(SecondPass(items, 1, p1.out, limit), limit)

\* ------------------------------------------------------------------------
\* main.py: soft mode filter
\* ------------------------------------------------------------------------

\* _filter_mode without the "or results" fallback of line 141
FilterModeHard(results, mode) ==
    IF mode \notin {"text", "table"} THEN results
    ELSE SelectSeq(results, LAMBDA r : Get(r, "content_type", "none") = mode)

\* main.py:133-141
_filter_mode(results, mode) ==
    IF mode \notin {"text", "table"} THEN results
    ELSE LET out == SelectSeq(results,
                        LAMBDA r : Get(r, "content_type", "none") = mode)
         IN  IF out # <<>> THEN out ELSE results

\* ------------------------------------------------------------------------
\* ingest.py: Python str operations on sequences of characters
\* ------------------------------------------------------------------------

\* str.split() / str.strip() whitespace
WS == {" ", "\n", "\t"}

\* s.strip()
Strip(str) ==
    LET ink == {i \in DOMAIN str : str[i] \notin WS}
    IN  IF ink = {} THEN <<>>
        ELSE SubSeq(str, CHOOSE i \in ink : \A j \in ink : i <= j,
                         CHOOSE i \in ink : \A j \in ink : j <= i)

\* s.strip(":")
StripColon(str) ==
    LET ink == {i \in DOMAIN str : str[i] # ":"}
    IN  IF ink = {} THEN <<>>
        ELSE SubSeq(str, CHOOSE i \in ink : \A j \in ink : i <= j,
                         CHOOSE i \in ink : \A j \in ink : j <= i)

\* len(s.split())
WordCount(str) ==
    Cardinality({i \in DOMAIN str :
                    str[i] \notin WS /\ (i = 1 \/ str[i - 1] \in WS)})

\* s.splitlines(): a final line break opens no further line
RECURSIVE SplitLines(_)
SplitLines(str) ==
    IF str = <<>> THEN <<>>
    ELSE LET brk == {i \in DOMAIN str : str[i] = "\n"}
         IN  IF brk = {} THEN <<str>>
             ELSE LET i == CHOOSE k \in brk : \A j \in brk : k <= j
                  IN  <<SubSeq(str, 1, i - 1)>>
                      \o SplitLines(SubSeq(str, i + 1, Len(str)))

\* sep.join(parts)
RECURSIVE Join(_, _)
Join(sep, parts) ==
    IF parts = <<>> THEN <<>>
    ELSE IF Len(parts) = 1 THEN parts[1]
    ELSE parts[1] \o sep \o Join(sep, Tail(parts))

\* s[-n:] for n >= 0; s[-0:] is s[0:], the whole string
SliceLast(str, n) ==
    IF n = 0 \/ n >= Len(str) THEN str
    ELSE SubSeq(str, Len(str) - n + 1, Len(str))

\* s[-n:] as the last n characters, none for n = 0
SliceLastNoneAtZero(str, n) ==
    IF n >= Len(str) THEN str
    ELSE SubSeq(str, Len(str) - n + 1, Len(str))

\* ln.isupper(): a cased character, and no lower-case one
IsUpper(str) ==
    /\ \E i \in DOMAIN str : str[i] \in {"A", "B"}
    /\ \A i \in DOMAIN str : str[i] \notin {"a", "b"}

\* a line "[[PAGE:n]]" is one element of the sequence: it is read only by
\* startswith("[[PAGE:") and by the page parse of ingest.py:171, and is
\* never part of a chunk's text
PageMarkers == {"[[PAGE:1]]", "[[PAGE:2]]", "[[PAGE:3]]", "[[PAGE:x]]"}

\* ingest.py:171  int(ln.split(":")[1].split("]")[0]); 0 when int() raises
MarkerPage(c) ==
    CASE c = "[[PAGE:1]]" -> 1
      [] c = "[[PAGE:2]]" -> 2
      [] c = "[[PAGE:3]]" -> 3
      [] OTHER -> 0

\* ------------------------------------------------------------------------
\* ingest.py: token estimate and structural split
\* ------------------------------------------------------------------------

\* tokenize_len with int() replaced by rounding to nearest
TokenizeLenRound(str) == Max(1, (WordCount(str) * 13 + 5) \div 10)

\* tokenize_len that counts characters
TokenizeLenChars(str) == Max(1, (Len(str) * 13) \div 10)

\* ingest.py:133-134  max(1, int(len(s.split()) * 1.3))
tokenize_len(str) == Max(1, (WordCount(str) * 13) \div 10)

\* ingest.py:175  len(ln.strip()) < 80
HeadingMaxLen == 80

\* ingest.py:175
IsHeadingLine(ln) ==
    /\ Strip(ln) # <<>>
    /\ \/ Strip(ln)[Len(Strip(ln))] = ":"
       \/ (IsUpper(ln) /\ Len(Strip(ln)) < HeadingMaxLen)

\* current_head[-3:]
LastThree(seq) == SubSeq(seq, Max(1, Len(seq) - 2), Len(seq))

\* ingest.py:168, :179  the block appended for the lines gathered so far
StructBlock(page, current_head, current) ==
    [page |-> page,
     heading |-> Join(<<" ", "/", " ">>, LastThree(current_head)),
     text |-> Strip(Join(<<"\n">>, current)),
     type |-> "text"]

\* ingest.py:165-177  the loop over lines
RECURSIVE SplitLoop(_, _, _, _, _, _)
SplitLoop(lines, i, page, blocks, current_head, current) ==
    IF i > Len(lines)
    THEN IF current # <<>>
         THEN Append(blocks, StructBlock(page, current_head, current))
         ELSE blocks
    ELSE LET ln == lines[i]
         IN  IF ln # <<>> /\ ln[1] \in PageMarkers
             THEN SplitLoop(lines, i + 1,
                     IF MarkerPage(ln[1]) # 0 THEN MarkerPage(ln[1]) ELSE page,
                     IF current # <<>>
                     THEN Append(blocks,
                                 StructBlock(page, current_head, current))
                     ELSE blocks,
                     current_head, <<>>)
             ELSE SplitLoop(lines, i + 1, page, blocks,
                     IF IsHeadingLine(ln)
                     THEN Append(current_head, StripColon(Strip(ln)))
                     ELSE current_head,
                     Append(current, ln))

\* ingest.py:159-183
split_text_structure(text) ==
    SplitLoop(SplitLines(text), 1, 1, <<>>, <<>>, <<>>)

\* ------------------------------------------------------------------------
\* ingest.py: text packer of chunk_blocks
\* ------------------------------------------------------------------------

\* ingest.py:218  [:300]
HeadingCap == 300

\* sorted(set(pages))
RECURSIVE SortedSet(_)
SortedSet(S) ==
    IF S = {} THEN <<>>
    ELSE LET m == CHOOSE x \in S : \A y \in S : x <= y
         IN  <<m>> \o SortedSet(S \ {m})

\* a flush that keeps the last piece of the buffer only
TextChunkLast(buf, buf_pages, buf_headings) ==
    [content_type |-> "text",
     text |-> Strip(buf[Len(buf)]),
     pages |-> SortedSet(Range(buf_pages)),
     heading |-> SliceTo(Join(<<" ", "/", " ">>,
                              SelectSeq(buf_headings, LAMBDA h : h # <<>>)),
                         HeadingCap)]

\* ingest.py:212-219  the chunk flush_text appends (when text is non-empty)
TextChunk(buf, buf_pages, buf_headings) ==
    [content_type |-> "text",
     text |-> Strip(Join(<<"\n">>, buf)),
     pages |-> SortedSet(Range(buf_pages)),
     heading |-> SliceTo(Join(<<" ", "/", " ">>,
                              SelectSeq(buf_headings, LAMBDA h : h # <<>>)),
                         HeadingCap)]

\* ingest.py:208-220  flush_text: the chunk list after the flush
FlushText(chunks, buf, buf_pages, buf_headings) ==
    IF buf = <<>> THEN chunks
    ELSE IF Strip(Join(<<"\n">>, buf)) # <<>>
         THEN Append(chunks, TextChunk(buf, buf_pages, buf_headings))
         ELSE chunks

\* ingest.py:229  int(len(old) * overlap), overlap given in hundredths
\* (0..100).  The product is a double: overlap is the double nearest
\* overlap/100, m / 2^(52+j) with 2^52 <= m < 2^53, which lies
\* short / (100 * 2^(52+j)) below overlap/100 when short > 0 (2^52 is 96
\* modulo 100).  Where len(old) * overlap/100 is a whole number N, at most
\* 2^k, the doubles below N are 2^(k-53) apart and the product is rounded
\* to the one below N, so that int gives N - 1, when it lies more than half
\* of that below N
KeepChars(old, overlap) ==
    LET n == Len(old)
        N == (n * overlap) \div 100
        j == CHOOSE x \in 0..7 : overlap * 2^x >= 100
                                 /\ (x = 0 \/ overlap * 2^(x - 1) < 100)
        t == (overlap * 96 * 2^j) % 100
        short == IF t < 50 THEN t ELSE 0
        k == CHOOSE x \in 0..30 : 2^x >= N /\ (x = 0 \/ 2^(x - 1) < N)
    IN  IF overlap = 0 \/ (n * overlap) % 100 # 0 THEN N
        ELSE IF n * short > 25 * 2^(k + j) THEN N - 1
        ELSE N

\* ingest.py:222-240  the loop over the structured sub-blocks
RECURSIVE PackLoop(_, _, _, _, _, _, _, _, _, _)
PackLoop(structured, i, chunks, buf, buf_pages, buf_headings, cur_tokens, min_tok, max_tok, overlap) ==
    IF i > Len(structured)
    THEN FlushText(chunks, buf, buf_pages, buf_headings)
    ELSE LET b == structured[i]
             btxt == Strip(b.text)
             btok == tokenize_len(btxt)
         IN  IF btxt = <<>>
             THEN PackLoop(structured, i + 1, chunks, buf, buf_pages,
                           buf_headings, cur_tokens, min_tok, max_tok, overlap)
             ELSE IF cur_tokens + btok > max_tok /\ cur_tokens >= min_tok
             THEN LET old == Join(<<"\n">>, buf)
                      tail == SliceLast(old, KeepChars(old, overlap))
                      flushed == FlushText(chunks, buf, buf_pages,
                                           buf_headings)
                  IN  IF Strip(tail) # <<>>
                      THEN PackLoop(structured, i + 1, flushed,
                                    <<tail, btxt>>, <<b.page>>, <<b.heading>>,
                                    tokenize_len(tail) + btok,
                                    min_tok, max_tok, overlap)
                      ELSE PackLoop(structured, i + 1, flushed,
                                    <<btxt>>, <<b.page>>, <<b.heading>>,
                                    btok, min_tok, max_tok, overlap)
             ELSE PackLoop(structured, i + 1, chunks,
                           Append(buf, btxt), Append(buf_pages, b.page),
                           Append(buf_headings, b.heading),
                           cur_tokens + btok, min_tok, max_tok, overlap)

\* ingest.py:199-203  text blocks with non-blank text, split by structure
RECURSIVE Structured(_)
Structured(mixed_blocks) ==
    IF mixed_blocks = <<>> THEN <<>>
    ELSE LET b == mixed_blocks[1]
         IN  (IF b.type = "text" /\ Strip(Get(b, "text", <<>>)) # <<>>
              THEN split_text_structure(b.text)
              ELSE <<>>)
             \o Structured(Tail(mixed_blocks))

\* ingest.py:199-241  the text chunks of chunk_blocks
TextChunks(mixed_blocks, min_tok, max_tok, overlap) ==
    PackLoop(Structured(mixed_blocks), 1, <<>>, <<>>, <<>>, <<>>, 0,
             min_tok, max_tok, overlap)

\* ------------------------------------------------------------------------
\* ingest.py: table chunker
\* ------------------------------------------------------------------------

\* ingest.py:273-274  tabs to spaces, then strip
_sanitize_cell(x) ==
    Strip([i \in DOMAIN x |-> IF x[i] = "\t" THEN " " ELSE x[i]])

\* ingest.py:308-309  max(1, int(len(" ".join(r).split()) * 1.2))
row_tokens(r) == Max(1, (WordCount(Join(<<" ">>, r)) * 12) \div 10)

\* a new chunk that is not seeded with the header
HeaderBufEmpty(header) == <<>>

\* ingest.py:314-315  start_new_chunk
HeaderBuf(header) == IF header # <<>> THEN <<header>> ELSE <<>>

HeaderTokens(header) == IF header # <<>> THEN row_tokens(header) ELSE 0

\* ingest.py:321, :327  1 if header else 0
HeaderRows(header) == IF header # <<>> THEN 1 ELSE 0

\* ingest.py:319-328
RECURSIVE RowLoop(_, _, _, _, _, _, _, _)
RowLoop(header, data_rows, i, chunks, buf, cur_tokens, tmin, tmax) ==
    IF i > Len(data_rows)
    THEN IF Len(buf) > HeaderRows(header) THEN Append(chunks, buf) ELSE chunks
    ELSE LET r == data_rows[i]
             rt == row_tokens(r)
         IN  IF /\ cur_tokens + rt > tmax
                /\ cur_tokens >= tmin
                /\ Len(buf) > HeaderRows(header)
             THEN RowLoop(header, data_rows, i + 1, Append(chunks, buf),
                          Append(HeaderBuf(header), r),
                          HeaderTokens(header) + rt, tmin, tmax)
             ELSE RowLoop(header, data_rows, i + 1, chunks,
                          Append(buf, r), cur_tokens + rt, tmin, tmax)

\* ingest.py:294-329
_chunk_table_rows(rows, target_tokens_min, target_tokens_max) ==
    IF rows = <<>> THEN <<>>
    ELSE RowLoop(rows[1], Tail(rows), 1, <<>>, HeaderBuf(rows[1]),
                 HeaderTokens(rows[1]), target_tokens_min, target_tokens_max)

\* "| " + " | ".join(cells) + " |"
MdRow(cells) == <<"|", " ">> \o Join(<<" ", "|", " ">>, cells) \o <<" ", "|">>

\* ingest.py:276-291  (max_cols is never None in chunk_blocks)
_render_table_markdown(rows, max_cols) ==
    IF rows = <<>> THEN <<>>
    ELSE LET cut == [i \in DOMAIN rows |-> SliceTo(rows[i], max_cols)]
             head == cut[1]
             header == MdRow([i \in DOMAIN head |->
                                IF _sanitize_cell(head[i]) # <<>>
                                THEN _sanitize_cell(head[i]) ELSE <<" ">>])
             sep == IF head # <<>>
                    THEN MdRow([i \in DOMAIN head |-> <<"-", "-", "-">>])
                    ELSE <<>>
             body == [i \in 1..(Len(cut) - 1) |->
                        MdRow([j \in DOMAIN cut[i + 1] |->
                                 _sanitize_cell(cut[i + 1][j])])]
             parts == IF head # <<>> THEN <<header, sep>> \o body ELSE body
         IN  Join(<<"\n">>, SelectSeq(parts, LAMBDA q : q # <<>>))

\* ingest.py:252  trim extra-wide tables
MaxTableCols == 12

\* ingest.py:248  max(8, int(min_tok * 0.25))
TableMinTokens(min_tok) == Max(8, min_tok \div 4)

\* ingest.py:249  max(32, int(max_tok * 0.5))
TableMaxTokens(max_tok) == Max(32, max_tok \div 2)

\* ingest.py:251-263  the chunks of one table block
RECURSIVE RowChunks(_, _, _)
RowChunks(tb, row_chunks, i) ==
    IF i > Len(row_chunks) THEN <<>>
    ELSE LET md == _render_table_markdown(row_chunks[i],
                       Min(Get(tb, "n_cols", 0), MaxTableCols))
         IN  (IF Strip(md) = <<>> THEN <<>>
              ELSE <<[content_type |-> "table",
                      text |-> md,
                      table_rows |-> row_chunks[i],
                      pages |-> <<Get(tb, "page", 1)>>,
                      heading |-> Get(tb, "heading", <<>>),
                      table_id |-> Get(tb, "table_id", ""),
                      table_chunk_index |-> i - 1]>>)
             \o RowChunks(tb, row_chunks, i + 1)

\* ingest.py:244-263  the table chunks of chunk_blocks
RECURSIVE TableChunks(_, _, _)
TableChunks(mixed_blocks, min_tok, max_tok) ==
    IF mixed_blocks = <<>> THEN <<>>
    ELSE LET tb == mixed_blocks[1]
         IN  (IF tb.type = "table" /\ Get(tb, "rows", <<>>) # <<>>
              THEN RowChunks(tb,
                       _chunk_table_rows(tb.rows, TableMinTokens(min_tok),
                                         TableMaxTokens(max_tok)), 1)
              ELSE <<>>)
             \o TableChunks(Tail(mixed_blocks), min_tok, max_tok)

\* ------------------------------------------------------------------------
\* ingest.py: chunk_blocks
\* ------------------------------------------------------------------------

\* ingest.py:266  tokenize_len(c["text"]) >= 4
MinChunkTokens == 4

\* ingest.py:266  the chunks that pass the floor
FilterTrivial(chunks) ==
    SelectSeq(chunks, LAMBDA c : tokenize_len(c.text) >= MinChunkTokens)

\* chunk_index assigned before the filter: positions in the unfiltered list
IndexBeforeFilter(chunks) ==
    LET idx == [i \in DOMAIN chunks |-> WithField(chunks[i], "chunk_index", i - 1)]
    IN  FilterTrivial(idx)

\* chunk_blocks without the filter of line 266
IndexWithoutFilter(chunks) ==
    [i \in DOMAIN chunks |-> WithField(chunks[i], "chunk_index", i - 1)]

\* ingest.py:266-268  filter, then number
FilterAndIndex(chunks) ==
    LET out == FilterTrivial(chunks)
    IN  [i \in DOMAIN out |-> WithField(out[i], "chunk_index", i - 1)]

\* ingest.py:186-269; overlap is the ratio in hundredths (0.18 is 18)
chunk_blocks(mixed_blocks, min_tok, max_tok, overlap) ==
    FilterAndIndex(TextChunks(mixed_blocks, min_tok, max_tok, overlap)
                   \o TableChunks(mixed_blocks, min_tok, max_tok))

\* ------------------------------------------------------------------------
\* State
\* ------------------------------------------------------------------------

VARIABLES
    requests,        \* requests received so far
    collection,      \* whether the Qdrant server has the collection
    index_dir,       \* whether Cfg.index_dir holds a Whoosh index
    del_pc,          \* position of the delete call
    files,           \* DATA_DIR: file name -> what the parsers read from it
    qdrant,          \* the collection: point id -> payload
    whoosh,          \* the lexical index: stored documents in docnum order
    ingest_log,      \* ingestion_log.py:4  what data/ingested_files.json holds
    upserts,         \* per file, the content of its last successful upsert
    i_pc,            \* position of the ingest_documents / upsert call
    todo,            \* main.py:171  files the loop has yet to visit
    new_files,       \* main.py:170
    doc_path,        \* ingest.py:457  the file being upserted
    doc_ver,         \* the content read from doc_path at ingest.py:458
    mixed_blocks,    \* ingest.py:458
    chunks,          \* ingest.py:462
    min_tok,         \* ingest.py:187
    max_tok,         \* ingest.py:188
    overlap,         \* ingest.py:189, in hundredths
    info,            \* main.py:176  upsert's return value or exception
    replaced,        \* the content the document's preceding successful
                     \* upsert stored, once this upsert has returned ok
    r_pc,            \* position of the retrieve / query call
    question,        \* main.py:192
    d,               \* retrieve.py:114  dense hits
    s,               \* retrieve.py:115  lexical hits
    fused,           \* retrieve.py:118
    top_for_rerank,  \* retrieve.py:119, sorted in place at :137
    pairs,           \* retrieve.py:122
    final_k,         \* retrieve.py:90 / main.py:193
    final,           \* retrieve.py:140
    results,         \* retrieve.py:141, hits of main.py:199
    mode,            \* main.py:194
    contexts,        \* main.py:200-201
    prev             \* the preceding rrf_fuse call of the fusion harness

indexVars == <<files, qdrant, whoosh, ingest_log, upserts>>

chunkVars == <<mixed_blocks, chunks, min_tok, max_tok, overlap>>

ingVars == <<indexVars, i_pc, todo, new_files, doc_path, doc_ver, chunkVars,
             info, replaced>>

retrVars == <<r_pc, question, d, s, fused, top_for_rerank, pairs, final_k, final,
              results, mode, contexts, prev>>

delVars == <<collection, index_dir, del_pc>>

vars == <<requests, delVars, ingVars, retrVars>>

\* requests (uploads, ingestions, deletions, questions) a behaviour holds
\* at most
MaxRequests == 4

\* a request arrives
Arrives == requests < MaxRequests /\ requests' = requests + 1

\* ingest.py:187-189  Cfg.target_tokens_min, target_tokens_max,
\* overlap_ratio (config.py:33-35)
target_tokens_min == 400

target_tokens_max == 800

overlap_ratio == 18

\* file names of DATA_DIR whose format the parsers read
Paths == {"a.md", "b.txt"}

\* a file name of DATA_DIR of another format
OtherPath == "c.bin"

DataDir == Paths \cup {OtherPath}

\* ingestion_log.py:7-10  a log file load_log reads the given names from
\* (no file reads as no name)
LogOf(names) == [json |-> TRUE, names |-> names]

\* a log file of no bytes: json.loads raises JSONDecodeError at :9
Truncated == [json |-> FALSE, names |-> {}]

\* ingestion_log.py:12-15  the log file after update_log(new_files): the
\* names it held and the new ones; the file as it was, when load_log (:13)
\* or the open of write_text (:15) raises; or no bytes, when the file was
\* opened, which truncates it, and the write raised.  A file of no bytes
\* stays so: load_log raises in every later call
update_log(log, names) ==
    IF log.json THEN {LogOf(log.names \cup names), log, Truncated}
    ELSE {log}

\* no ingestion under way, empty indexes, empty DATA_DIR
IngIdle ==
    /\ files = [p \in DataDir |-> "none"]
    /\ qdrant = <<>> /\ whoosh = <<>> /\ ingest_log = LogOf({})
    /\ upserts = [p \in Paths |-> "none"]
    /\ i_pc = "idle" /\ todo = <<>> /\ new_files = <<>>
    /\ doc_path = "none" /\ doc_ver = "none"
    /\ mixed_blocks = <<>> /\ chunks = <<>>
    /\ min_tok = target_tokens_min /\ max_tok = target_tokens_max
    /\ overlap = overlap_ratio
    /\ info = <<>> /\ replaced = "none"

\* ------------------------------------------------------------------------
\* Inputs of the pure-function harnesses
\* ------------------------------------------------------------------------

\* chunk ids the harness hit lists are drawn from: two chunks of one
\* document and one of another
HarnessIds == {WhooshId("d1", 0), WhooshId("d1", 1), WhooshId("d2", 0)}

\* the common shape of a hit (retrieve.py:35-41, :52-58); score is the
\* backend's own descending score, here the distance from the list's end
Hit(id, pos, n) ==
    [id |-> id, score |-> n - pos, doc_id |-> id.doc_id,
     doc_title |-> id.doc_id, section_title |-> <<>>, page_nums |-> <<1>>,
     chunk_index |-> id.chunk_index]

HitList(idseq) == [i \in DOMAIN idseq |-> Hit(idseq[i], i, Len(idseq))]

HitLists(ids) == {HitList(q) : q \in InjSeqs(ids, MaxHits)}

IdsOf(items) == {items[i].id : i \in DOMAIN items}

\* 0-based position of pid in items, AbsentRank when it is not there
PosOf(items, pid) ==
    IF pid \in IdsOf(items)
    THEN (CHOOSE i \in DOMAIN items : items[i].id = pid) - 1
    ELSE AbsentRank

RetrIdle ==
    /\ prev = <<>>
    /\ d = <<>> /\ s = <<>> /\ fused = <<>> /\ top_for_rerank = <<>>
    /\ pairs = <<>> /\ final_k = 0 /\ final = <<>> /\ results = <<>>
    /\ mode = "hybrid" /\ contexts = <<>> /\ question = "none"

\* ------------------------------------------------------------------------
\* SpecFuse: rrf_fuse called on every pair of hit lists, then called again
\* with one candidate moved to a better rank on one side
\* ------------------------------------------------------------------------

InitFuse ==
    /\ IngIdle
    /\ requests = 0
    /\ collection = TRUE /\ index_dir = TRUE /\ del_pc = "idle"
    /\ r_pc = "fuse_call"
    /\ d \in HitLists(HarnessIds)
    /\ s \in HitLists(HarnessIds)
    /\ fused = <<>> /\ top_for_rerank = <<>> /\ pairs = <<>>
    /\ final_k = 0 /\ final = <<>> /\ results = <<>>
    /\ mode = "hybrid" /\ contexts = <<>> /\ question = "none" /\ prev = <<>>

FuseCall ==
    /\ r_pc = "fuse_call"
    /\ \E seed \in SetOrders(d, s, k_rrf) : fused' = rrf_fuse(d, s, k_rrf, seed)
    /\ r_pc' = "fused"
    /\ UNCHANGED <<requests, delVars, ingVars, question, d, s, top_for_rerank, pairs,
                   final_k, final,
                   results, mode, contexts, prev>>

\* pid has a better (smaller) rank in after than in before
Raised(before, after, pid) == PosOf(after, pid) < PosOf(before, pid)

RaiseDense ==
    /\ r_pc = "fused"
    /\ \E d2 \in HitLists(HarnessIds), pid \in IdsOf(d) \cup IdsOf(s) :
          /\ Raised(d, d2, pid)
          /\ prev' = [d |-> d, s |-> s, fused |-> fused, pid |-> pid]
          /\ d' = d2
          /\ \E seed \in SetOrders(d2, s, k_rrf) :
                fused' = rrf_fuse(d2, s, k_rrf, seed)
    /\ r_pc' = "raised"
    /\ UNCHANGED <<requests, delVars, ingVars, question, s, top_for_rerank, pairs,
                   final_k, final,
                   results, mode, contexts>>

RaiseSparse ==
    /\ r_pc = "fused"
    /\ \E s2 \in HitLists(HarnessIds), pid \in IdsOf(d) \cup IdsOf(s) :
          /\ Raised(s, s2, pid)
          /\ prev' = [d |-> d, s |-> s, fused |-> fused, pid |-> pid]
          /\ s' = s2
          /\ \E seed \in SetOrders(d, s2, k_rrf) :
                fused' = rrf_fuse(d, s2, k_rrf, seed)
    /\ r_pc' = "raised"
    /\ UNCHANGED <<requests, delVars, ingVars, question, d, top_for_rerank, pairs,
                   final_k, final,
                   results, mode, contexts>>

NextFuse == FuseCall \/ RaiseDense \/ RaiseSparse

SpecFuse == InitFuse /\ [][NextFuse]_vars

\* ------------------------------------------------------------------------
\* SpecDiverse: _diverse_head called on every reranked list and limit
\* ------------------------------------------------------------------------

DiverseIds == HarnessIds \cup {WhooshId("d2", 1)}

InitDiverse ==
    /\ IngIdle
    /\ requests = 0
    /\ collection = TRUE /\ index_dir = TRUE /\ del_pc = "idle"
    /\ r_pc = "diverse_call"
    /\ top_for_rerank \in HitLists(DiverseIds)
    /\ final_k \in 0..MaxLimit
    /\ d = <<>> /\ s = <<>> /\ fused = <<>> /\ pairs = <<>>
    /\ final = <<>> /\ results = <<>>
    /\ mode = "hybrid" /\ contexts = <<>> /\ question = "none" /\ prev = <<>>

DiverseCall ==
    /\ r_pc = "diverse_call"
    /\ final' = _diverse_head(top_for_rerank, final_k)
    /\ r_pc' = "diverse_done"
    /\ UNCHANGED <<requests, delVars, ingVars, question, d, s, fused, top_for_rerank,
                   pairs, final_k,
                   results, mode, contexts, prev>>

NextDiverse == DiverseCall

SpecDiverse == InitDiverse /\ [][NextDiverse]_vars

\* ------------------------------------------------------------------------
\* SpecFilter: _filter_mode called on every result list and mode
\* ------------------------------------------------------------------------

\* a result of retrieve (retrieve.py:144-152) for chunk id with a content
\* type
Result(id, ctype) ==
    [doc_title |-> id.doc_id, section_title |-> <<>>, pages |-> <<1>>,
     chunk_index |-> id.chunk_index, chunk_id |-> id,
     content_type |-> ctype, text |-> <<"x">>]

ResultLists ==
    UNION {{[i \in DOMAIN q |-> Result(q[i], ct[i])] :
              ct \in [DOMAIN q -> {"text", "table"}]} :
           q \in InjSeqs(HarnessIds, MaxHits)}

Modes == {"text", "table", "hybrid"}

InitFilter ==
    /\ IngIdle
    /\ requests = 0
    /\ collection = TRUE /\ index_dir = TRUE /\ del_pc = "idle"
    /\ r_pc = "filter_call"
    /\ results \in ResultLists
    /\ mode \in Modes
    /\ d = <<>> /\ s = <<>> /\ fused = <<>> /\ top_for_rerank = <<>>
    /\ pairs = <<>> /\ final_k = 0 /\ final = <<>>
    /\ contexts = <<>> /\ prev = <<>> /\ question = "none"

FilterCall ==
    /\ r_pc = "filter_call"
    /\ contexts' = _filter_mode(results, mode)
    /\ r_pc' = "filter_done"
    /\ UNCHANGED <<requests, delVars, ingVars, question, d, s, fused, top_for_rerank,
                   pairs, final_k,
                   final, results, mode, prev>>

NextFilter == FilterCall

SpecFilter == InitFilter /\ [][NextFilter]_vars

\* ------------------------------------------------------------------------
\* SpecChunk: chunk_blocks called on documents of up to MaxPages text pages
\* and on documents with a table
\* ------------------------------------------------------------------------

\* most text blocks (pages) of a document
MaxPages == 2

\* n words "a" separated by single spaces
Words(n) ==
    IF n <= 1 THEN <<"a">>
    ELSE [i \in 1..(2 * n - 1) |-> IF i % 2 = 1 THEN "a" ELSE " "]

\* lines a sample text is made of: one word, four words, a heading and a
\* page marker
ChunkLines == {Words(1), Words(4), <<"A", ":">>, <<"[[PAGE:2]]">>}

\* texts of one or two of these lines, and a blank text
SampleTexts ==
    {Join(<<"\n">>, ls) : ls \in [1..1 -> ChunkLines] \cup [1..2 -> ChunkLines]}
    \cup {<<" ">>}

\* ingest.py:69-70  one text block per page, numbered from 1
TextBlock(page, text) ==
    [type |-> "text", page |-> page, heading |-> <<>>, text |-> text]

TextPages(n) ==
    UNION {{[i \in 1..k |-> TextBlock(i, ts[i])] : ts \in [1..k -> SampleTexts]} :
           k \in 0..n}

\* r rows of c cells of w words each
Table(r, c, w) == [i \in 1..r |-> [j \in 1..c |-> Words(w)]]

\* ingest.py:74-81  a table block
TableBlock(rows, n_cols, id) ==
    [type |-> "table", page |-> 1, heading |-> <<>>, rows |-> rows,
     n_cols |-> n_cols, table_id |-> id]

\* r <= 5 rows of one cell of w words, the first word another in each row
NumberedTable(r, w) ==
    [i \in 1..r |-> <<<<<<"h", "w", "x", "y", "z">>[i], " ">> \o Words(w - 1)>>]

SampleTables ==
    {TableBlock(Table(r, c, 1), n, "table:1") :
        r \in 0..3, c \in 1..2, n \in 0..2}
    \cup {TableBlock(Table(4, 1, 10), 1, "table:1"),
          TableBlock(NumberedTable(4, 10), 1, "table:1")}

\* (min_tok, max_tok, overlap in hundredths): the defaults and small budgets
ChunkParams ==
    {<<target_tokens_min, target_tokens_max, overlap_ratio>>,
     <<1, 5, 18>>, <<1, 5, 0>>, <<5, 9, 50>>, <<0, 1, 100>>, <<5, 5, 18>>}

\* words of the long documents
LongWords == 1200

\* ingest.py:69-70  documents of three pages that hold LongWords words
\* together: in equal parts, and with half of the words on the last, the
\* first or the middle page
LongDocs ==
    LET third == LongWords \div 3
        quarter == LongWords \div 4
        rest(x, y) == LongWords - x - y
    IN  {[i \in 1..3 |-> TextBlock(i, Words(sp[i]))] :
            sp \in {<<third, third, rest(third, third)>>,
                    <<quarter, quarter, rest(quarter, quarter)>>,
                    <<rest(quarter, quarter), quarter, quarter>>,
                    <<quarter, rest(quarter, quarter), quarter>>}}

TableParams == {<<target_tokens_min, target_tokens_max, overlap_ratio>>,
                <<1, 5, 18>>}

InitChunk ==
    /\ requests = 0
    /\ collection = TRUE /\ index_dir = TRUE /\ del_pc = "idle"
    /\ RetrIdle
    /\ r_pc = "idle"
    /\ files = [p \in DataDir |-> "none"]
    /\ qdrant = <<>> /\ whoosh = <<>> /\ ingest_log = LogOf({})
    /\ upserts = [p \in Paths |-> "none"]
    /\ i_pc = "chunk_call" /\ todo = <<>> /\ new_files = <<>>
    /\ doc_path = "none" /\ doc_ver = "none"
    /\ chunks = <<>> /\ info = <<>> /\ replaced = "none"
    /\ \/ /\ mixed_blocks \in TextPages(MaxPages)
          /\ \E cp \in ChunkParams :
                min_tok = cp[1] /\ max_tok = cp[2] /\ overlap = cp[3]
       \/ /\ mixed_blocks \in
                {tp \o <<tb>> : tp \in TextPages(1), tb \in SampleTables}
          /\ \E cp \in TableParams :
                min_tok = cp[1] /\ max_tok = cp[2] /\ overlap = cp[3]
       \/ /\ mixed_blocks \in LongDocs
          /\ min_tok = target_tokens_min
          /\ max_tok = target_tokens_max
          /\ overlap = overlap_ratio

ChunkCall ==
    /\ i_pc = "chunk_call"
    /\ chunks' = chunk_blocks(mixed_blocks, min_tok, max_tok, overlap)
    /\ i_pc' = "chunk_done"
    /\ UNCHANGED <<requests, delVars, indexVars, todo, new_files, doc_path, doc_ver,
                   mixed_blocks, min_tok, max_tok, overlap, info, replaced,
                   retrVars>>

NextChunk == ChunkCall

SpecChunk == InitChunk /\ [][NextChunk]_vars

\* ------------------------------------------------------------------------
\* The documents of DATA_DIR and their parsed content
\* ------------------------------------------------------------------------

\* what a file can hold: "none" is no such file, "empty" a file of no
\* bytes (one uploaded so, or one open(path, "wb") of main.py:160 has
\* truncated and copyfileobj has not written yet)
Versions(p) ==
    CASE p = "a.md" -> {"empty", "text_table", "table", "short"}
      [] p = "b.txt" -> {"empty", "text"}
      [] OTHER -> {"bytes"}

\* ingest.py:459  sha1(doc_path): one digest per path
sha1(p) == IF p = "a.md" THEN "d1" ELSE "d2"

\* ingest.py:52  os.path.splitext(path)[1].lower()
Ext(p) ==
    CASE p = "a.md" -> ".md" [] p = "b.txt" -> ".txt" [] OTHER -> ".bin"

\* ingest.py:55, :83, :100, :123  the formats with a parser; any other
\* raises ValueError at :128
Supported(p) == Ext(p) \in {".pdf", ".docx", ".md", ".markdown", ".txt"}

\* ingest.py:46-130  the blocks read from file p holding content ver:
\* a markdown file gives a text block when text remains beside its tables
\* (:111-112) and one block per table (:113-121); a .txt file one text
\* block (:123-125)
read_blocks_with_tables(p, ver) ==
    IF Ext(p) = ".md"
    THEN CASE ver = "empty" -> <<>>
           [] ver = "text_table" ->
                <<TextBlock(1, Words(4)),
                  TableBlock(Table(2, 1, 1), 1, "table:1")>>
           [] ver = "table" ->
                <<TableBlock(Table(3, 2, 1), 2, "table:1")>>
           [] OTHER -> <<TextBlock(1, Words(1))>>
    ELSE IF ver = "empty" THEN <<TextBlock(1, <<>>)>>
    ELSE <<TextBlock(1, Words(5))>>

\* ------------------------------------------------------------------------
\* ingest.py: upsert
\* ------------------------------------------------------------------------

\* ingest.py:479-491  payload of a chunk (created_at, the wall clock of the
\* call, and source_path are left out: nothing reads them)
Payload(doc_id, doc_title, c) ==
    [doc_id |-> doc_id,
     doc_title |-> doc_title,
     section_title |-> Get(c, "heading", <<>>),
     page_nums |-> Get(c, "pages", <<>>),
     chunk_index |-> c.chunk_index,
     content_type |-> Get(c, "content_type", "text"),
     table_id |-> Get(c, "table_id", ""),
     table_chunk_index |-> Get(c, "table_chunk_index", -1),
     n_table_rows |-> Len(Get(c, "table_rows", <<>>))]

\* ingest.py:475  the point ids of the batch
BatchIds(doc_id, cs) == {Uuid5(doc_id, cs[i].chunk_index) : i \in DOMAIN cs}

\* an upsert that sends the points of the batch one call each, of which
\* the first has been made
QdrantUpsertFirst(qc, doc_id, doc_title, cs) ==
    [id \in DOMAIN qc \cup {Uuid5(doc_id, cs[1].chunk_index)} |->
        IF id = Uuid5(doc_id, cs[1].chunk_index)
        THEN Payload(doc_id, doc_title, cs[1])
        ELSE qc[id]]

\* ingest.py:493-498  qc.upsert: a point of the same id is replaced
QdrantUpsert(qc, doc_id, doc_title, cs) ==
    [id \in DOMAIN qc \cup BatchIds(doc_id, cs) |->
        IF id \in BatchIds(doc_id, cs)
        THEN Payload(doc_id, doc_title,
                     cs[CHOOSE i \in DOMAIN cs :
                            Uuid5(doc_id, cs[i].chunk_index) = id])
        ELSE qc[id]]

\* str(n) for the page numbers of the model
DigitStr(n) ==
    CASE n = 0 -> "0" [] n = 1 -> "1" [] n = 2 -> "2" [] n = 3 -> "3"
      [] OTHER -> "9"

\* int(x) for one digit
DigitInt(c) ==
    CASE c = "0" -> 0 [] c = "1" -> 1 [] c = "2" -> 2 [] c = "3" -> 3
      [] OTHER -> 9

\* ingest.py:510  ",".join(map(str, pages))
PageField(pages) ==
    Join(<<",">>, [i \in DOMAIN pages |-> <<DigitStr(pages[i])>>])

\* ingest.py:503-511  the stored fields of a chunk
WhooshDoc(doc_id, doc_title, c) ==
    [doc_id |-> doc_id,
     chunk_id |-> WhooshId(doc_id, c.chunk_index),
     title |-> doc_title,
     section |-> Get(c, "heading", <<>>),
     content |-> c.text,
     page |-> PageField(Get(c, "pages", <<>>))]

\* writer.add_document: appends, whatever the index holds
AddDocument(wi, doc) == Append(wi, doc)

\* ingest.py:504  writer.update_document: chunk_id is the schema's unique
\* field (:443), so the stored documents of that chunk_id are deleted first
update_document(wi, doc) ==
    Append(SelectSeq(wi, LAMBDA x : x.chunk_id # doc.chunk_id), doc)

\* ingest.py:501-512  the index after the writer committed
RECURSIVE WhooshWrite(_, _, _, _, _)
WhooshWrite(wi, doc_id, doc_title, cs, i) ==
    IF i > Len(cs) THEN wi
    ELSE WhooshWrite(update_document(wi, WhooshDoc(doc_id, doc_title, cs[i])),
                     doc_id, doc_title, cs, i + 1)

\* ingest.py:472  Cfg.dim (config.py:21)
dim == 384

\* ------------------------------------------------------------------------
\* retrieve.py: the two searches and the text loader
\* ------------------------------------------------------------------------

\* config.py:27
dense_top_k == 50

\* config.py:28
bm25_top_k == 50

\* config.py:29
rerank_top_k == 30

\* retrieve.py:33-42  the hit built from point id and its payload p, at
\* 1-based position pos of n hits (score: the backend's descending score)
DenseHit(id, p, pos, n) ==
    [id |-> id, score |-> n - pos,
     doc_id |-> p.doc_id, doc_title |-> p.doc_title,
     section_title |-> Get(p, "section_title", <<>>),
     page_nums |-> Get(p, "page_nums", <<>>),
     chunk_index |-> Get(p, "chunk_index", -1)]

\* retrieve.py:25-42  qc.search ranks every point of the collection by
\* similarity to the query vector and returns the first top_k: idseq is
\* that ranking
dense_search(qc, idseq, top_k) ==
    LET hits == SliceTo(idseq, top_k)
    IN  [i \in DOMAIN hits |-> DenseHit(hits[i], qc[hits[i]], i, Len(hits))]

\* retrieve.py:56  [int(x) for x in r["page"].split(",") if x]
ParsePages(page) ==
    LET digits == SelectSeq(page, LAMBDA c : c # ",")
    IN  [i \in DOMAIN digits |-> DigitInt(digits[i])]

\* retrieve.py:51-58  the hit built from stored document r
SparseHit(r, pos, n) ==
    [id |-> r.chunk_id, score |-> n - pos,
     doc_id |-> r.doc_id, doc_title |-> r.title,
     section_title |-> r.section,
     page_nums |-> ParsePages(r.page),
     chunk_index |-> r.chunk_id.chunk_index]

\* retrieve.py:44-59  s.search returns the stored documents that match the
\* query, best first, at most top_k: numseq is that ranking, as positions
\* in the index
bm25_search(wi, numseq, top_k) ==
    LET hits == SliceTo(numseq, top_k)
    IN  [i \in DOMAIN hits |-> SparseHit(wi[hits[i]], i, Len(hits))]

\* retrieve.py:73-77  s.document(chunk_id=...): the first stored document
\* of that chunk_id, "" when there is none
_load_chunk_text(wi, chunk_id) ==
    LET found == SelectSeq(wi, LAMBDA x : x.chunk_id = chunk_id)
    IN  IF found # <<>> THEN found[1].content ELSE <<>>

\* retrieve.py:99-110
_whoosh_id_from_meta(item) ==
    IF item.id.kind = "cid" THEN item.id
    ELSE IF Get(item, "chunk_index", -1) # -1
         THEN WhooshId(item.doc_id, item.chunk_index)
         ELSE item.id

\* retrieve.py:127-129  the passage paired with the query for candidate t
Passage(wi, t) ==
    <<"[", t.doc_title, "]", " ">> \o Get(t, "section_title", <<>>)
    \o <<"\n">>
    \o (IF Get(t, "content_type", "none") = "table"
        THEN <<"[TABLE]\n">> ELSE <<>>)
    \o _load_chunk_text(wi, _whoosh_id_from_meta(t))

\* retrieve.py:137  list.sort(key=rerank, reverse=True): stable, descending
RECURSIVE InsertByRerank(_, _)
InsertByRerank(sorted, x) ==
    IF sorted = <<>> THEN <<x>>
    ELSE IF x.rerank > sorted[Len(sorted)].rerank
         THEN Append(InsertByRerank(SubSeq(sorted, 1, Len(sorted) - 1), x),
                     sorted[Len(sorted)])
         ELSE Append(sorted, x)

RECURSIVE SortByRerank(_)
SortByRerank(items) ==
    IF items = <<>> THEN <<>>
    ELSE InsertByRerank(SortByRerank(SubSeq(items, 1, Len(items) - 1)),
                        items[Len(items)])

\* retrieve.py:133-137  scores: what reranker().predict(pairs) returned
Rerank(top, scores) ==
    SortByRerank([i \in DOMAIN top |-> WithField(top[i], "rerank", scores[i])])

\* retrieve.py:136  t["rerank"] = float(sc) writes into the dicts
\* top_for_rerank shares with fused (:119 copies the list, not its
\* elements): the first Len(scores) elements of fused carry the score
Reranked(fu, scores) ==
    [i \in DOMAIN fu |->
        IF i \in DOMAIN scores THEN WithField(fu[i], "rerank", scores[i])
        ELSE fu[i]]

\* retrieve.py:143-152  the result built for candidate t
ResultOf(wi, t) ==
    [doc_title |-> t.doc_title,
     section_title |-> Get(t, "section_title", <<>>),
     pages |-> Get(t, "page_nums", <<>>),
     chunk_index |-> Get(t, "chunk_index", -1),
     chunk_id |-> _whoosh_id_from_meta(t),
     content_type |-> Get(t, "content_type", "text"),
     text |-> _load_chunk_text(wi, _whoosh_id_from_meta(t))]

\* ------------------------------------------------------------------------
\* The served system: upload_file, ingest_documents / upsert, delete and
\* query_endpoint / retrieve, their steps interleaved in every order
\* ------------------------------------------------------------------------

\* every id the two indexes can hold
SystemChunks == <<<<"d1", 0>>, <<"d1", 1>>, <<"d2", 0>>>>

Init ==
    /\ requests = 0
    /\ collection = TRUE /\ index_dir = TRUE /\ del_pc = "idle"
    /\ IngIdle
    /\ RetrIdle
    /\ r_pc = "idle"

\* main.py:155-165  upload_file writes the file under DATA_DIR, whatever
\* the other requests are doing: the file is truncated at :160 and written
\* at :161, so a reader in between finds it empty (the step to "empty",
\* then the step to the content); one step to the content is an upload
\* nothing read meanwhile
Upload ==
    /\ Arrives
    /\ \E p \in Paths :
          \E v \in Versions(p) :
             /\ files[p] # v
             /\ files' = [files EXCEPT ![p] = v]
    /\ UNCHANGED <<delVars, qdrant, whoosh, ingest_log, upserts, i_pc, todo,
                   new_files, doc_path, doc_ver, chunkVars, info, replaced,
                   retrVars>>

\* main.py:155-165  upload_file of a file no parser reads
UploadOther ==
    /\ Arrives
    /\ files[OtherPath] = "none"
    /\ files' = [files EXCEPT ![OtherPath] = "bytes"]
    /\ UNCHANGED <<delVars, qdrant, whoosh, ingest_log, upserts, i_pc, todo,
                   new_files, doc_path, doc_ver, chunkVars, info, replaced,
                   retrVars>>

\* main.py:168-171  os.listdir yields the files in an arbitrary order
IngestStart ==
    /\ i_pc = "idle"
    /\ Arrives
    /\ todo' \in Perms({p \in DataDir : files[p] # "none"})
    /\ new_files' = <<>>
    /\ i_pc' = "next"
    /\ UNCHANGED <<delVars, indexVars, doc_path, doc_ver, chunkVars, info,
                   replaced,
                   retrVars>>

\* main.py:177  new_files.append(name)
Reported(name) == [name |-> name, failed |-> FALSE]

\* main.py:180  new_files.append(f"{name} (FAILED: {e})")
ReportedFailed(name) == [name |-> name, failed |-> TRUE]

\* an ingestion in which the exception of upsert leaves the loop
UpsertUnsupportedAborts ==
    /\ i_pc = "next" /\ todo # <<>>
    /\ ~Supported(Head(todo))
    /\ doc_path' = "none" /\ doc_ver' = "none"
    /\ mixed_blocks' = <<>> /\ chunks' = <<>>
    /\ info' = [raised |-> "ValueError"]
    /\ replaced' = "none"
    /\ new_files' = <<>>
    /\ todo' = <<>>
    /\ i_pc' = "idle"
    /\ UNCHANGED <<requests, delVars, indexVars, min_tok, max_tok, overlap, retrVars>>

\* ingest.py:458, :127-128  read_blocks_with_tables raises ValueError for
\* the format of the next file; main.py:178-180
UpsertUnsupported ==
    /\ i_pc = "next" /\ todo # <<>>
    /\ ~Supported(Head(todo))
    /\ doc_path' = Head(todo) /\ doc_ver' = files[Head(todo)]
    /\ mixed_blocks' = <<>> /\ chunks' = <<>>
    /\ info' = [raised |-> "ValueError"]
    /\ replaced' = "none"
    /\ new_files' = Append(new_files, ReportedFailed(Head(todo)))
    /\ todo' = Tail(todo)
    /\ UNCHANGED <<requests, delVars, indexVars, i_pc, min_tok, max_tok, overlap,
                   retrVars>>

\* ingest.py:458-462  upsert reads the next file and chunks what it read.
\* The calls that follow (model.encode at :466-467, a blocking call, and
\* the two backends) work on these chunks, whatever upload_file has
\* written to the file by then
UpsertRead ==
    /\ i_pc = "next" /\ todo # <<>>
    /\ Supported(Head(todo))
    /\ LET p == Head(todo)
           blocks == read_blocks_with_tables(p, files[p])
       IN  /\ doc_path' = p /\ doc_ver' = files[p]
           /\ mixed_blocks' = blocks
           /\ chunks' = chunk_blocks(blocks, target_tokens_min,
                                     target_tokens_max, overlap_ratio)
    /\ info' = <<>>
    /\ replaced' = "none"
    /\ i_pc' = "read"
    /\ UNCHANGED <<requests, delVars, indexVars, todo, new_files, min_tok, max_tok,
                   overlap, retrVars>>

\* ingest.py:463-464  what was read gave no chunk: upsert returns no_chunks
UpsertNoChunks ==
    /\ i_pc = "read" /\ chunks = <<>>
    /\ info' = [doc_id |-> sha1(doc_path), chunks |-> 0,
                reason |-> "no_chunks"]
    /\ new_files' = Append(new_files, Reported(doc_path))
    /\ todo' = Tail(todo)
    /\ i_pc' = "next"
    /\ UNCHANGED <<requests, delVars, indexVars, doc_path, doc_ver, chunkVars,
                   replaced, retrVars>>

\* ingest.py:466-469  model.encode returned no vector
UpsertNoVectors ==
    /\ i_pc = "read" /\ chunks # <<>>
    /\ info' = [doc_id |-> sha1(doc_path), chunks |-> 0,
                reason |-> "no_vectors"]
    /\ new_files' = Append(new_files, Reported(doc_path))
    /\ todo' = Tail(todo)
    /\ i_pc' = "next"
    /\ UNCHANGED <<requests, delVars, indexVars, doc_path, doc_ver, chunkVars,
                   replaced, retrVars>>

\* an upsert that stores the batch before it looks at the vectors' length
UpsertDimCheckedLate ==
    /\ i_pc = "read" /\ chunks # <<>>
    /\ collection
    /\ qdrant' = QdrantUpsert(qdrant, sha1(doc_path), doc_path, chunks)
    /\ info' = [raised |-> "ValueError"]
    /\ new_files' = Append(new_files, ReportedFailed(doc_path))
    /\ todo' = Tail(todo)
    /\ i_pc' = "next"
    /\ UNCHANGED <<requests, delVars, files, whoosh, ingest_log, upserts, doc_path,
                   doc_ver, chunkVars, replaced, retrVars>>

\* ingest.py:471-473  the vectors have another length than Cfg.dim
UpsertDimMismatch ==
    /\ i_pc = "read" /\ chunks # <<>>
    /\ info' = [raised |-> "ValueError"]
    /\ new_files' = Append(new_files, ReportedFailed(doc_path))
    /\ todo' = Tail(todo)
    /\ i_pc' = "next"
    /\ UNCHANGED <<requests, delVars, indexVars, doc_path, doc_ver, chunkVars,
                   replaced, retrVars>>

\* ingest.py:466-498  the chunks read are embedded and
\* qc.upsert(..., wait=True) stores the batch in the collection
UpsertQdrant ==
    /\ i_pc = "read" /\ chunks # <<>>
    /\ collection
    /\ qdrant' = QdrantUpsert(qdrant, sha1(doc_path), doc_path, chunks)
    /\ i_pc' = "whoosh_write"
    /\ UNCHANGED <<requests, delVars, files, whoosh, ingest_log, upserts, todo,
                   new_files, doc_path, doc_ver, chunkVars, info, replaced,
                   retrVars>>

\* ingest.py:498  qc.upsert raises (Qdrant unreachable); main.py:178-180
UpsertQdrantFails ==
    /\ i_pc = "read" /\ chunks # <<>>
    /\ info' = [raised |-> "qdrant"]
    /\ new_files' = Append(new_files, ReportedFailed(doc_path))
    /\ todo' = Tail(todo)
    /\ i_pc' = "next"
    /\ UNCHANGED <<requests, delVars, indexVars, doc_path, doc_ver, chunkVars,
                   replaced, retrVars>>

\* ingest.py:501-513  the writer commits and upsert returns ok
UpsertWhoosh ==
    /\ i_pc = "whoosh_write"
    /\ index_dir
    /\ whoosh' = WhooshWrite(whoosh, sha1(doc_path), doc_path, chunks, 1)
    /\ info' = [doc_id |-> sha1(doc_path), chunks |-> Len(chunks),
                reason |-> "ok"]
    /\ upserts' = [upserts EXCEPT ![doc_path] = doc_ver]
    /\ replaced' = upserts[doc_path]
    /\ new_files' = Append(new_files, Reported(doc_path))
    /\ todo' = Tail(todo)
    /\ i_pc' = "next"
    /\ UNCHANGED <<requests, delVars, files, qdrant, ingest_log, doc_path, doc_ver,
                   chunkVars, retrVars>>

\* ingest.py:501-512  the writer raises before the commit, as it does when
\* the directory holds no index; main.py:178-180
UpsertWhooshFails ==
    /\ i_pc = "whoosh_write"
    /\ info' = [raised |-> "whoosh"]
    /\ replaced' = "none"
    /\ new_files' = Append(new_files, ReportedFailed(doc_path))
    /\ todo' = Tail(todo)
    /\ i_pc' = "next"
    /\ UNCHANGED <<requests, delVars, indexVars, doc_path, doc_ver, chunkVars,
                   retrVars>>

\* main.py:182-187  when a file was attempted, update_log with the names
\* that did not fail; an exception of update_log is passed over at
\* :185-186, with the log file as update_log left it; return
IngestEnd ==
    /\ i_pc = "next" /\ todo = <<>>
    /\ ingest_log' \in
          IF new_files = <<>> THEN {ingest_log}
          ELSE update_log(ingest_log,
                          {new_files[i].name :
                              i \in {j \in DOMAIN new_files :
                                        ~new_files[j].failed}})
    /\ i_pc' = "idle"
    /\ new_files' = <<>>
    /\ doc_path' = "none" /\ doc_ver' = "none"
    /\ mixed_blocks' = <<>> /\ chunks' = <<>> /\ info' = <<>>
    /\ replaced' = "none"
    /\ UNCHANGED <<requests, delVars, files, qdrant, whoosh, upserts, todo, min_tok,
                   max_tok, overlap, retrVars>>

\* the questions asked: what a question is to the model is the order in
\* which the embedding ranks the chunks for it, the chunks its terms match
\* in BM25 order, and the chunks the cross-encoder scores high for it
Queries == {"q1", "q2"}

\* largest k of a request
MaxK == 2

\* chunks by descending cosine similarity to the question's vector
Similar(q) ==
    IF q = "q1" THEN SystemChunks
    ELSE [i \in 1..3 |-> SystemChunks[4 - i]]

\* chunks whose text matches the question's terms, best BM25 score first
Matching(q) ==
    IF q = "q1" THEN [i \in 1..3 |-> SystemChunks[4 - i]]
    ELSE <<SystemChunks[1]>>

\* the chunk text of the one-column table of a.md
OneColumnTable ==
    <<"|", " ", "a", " ", "|", "\n", "|", " ", "-", "-", "-", " ", "|", "\n",
      "|", " ", "a", " ", "|">>

\* chunk texts the cross-encoder scores high for the question
Relevant(q) == IF q = "q1" THEN {OneColumnTable} ELSE {}

\* retrieve.py:30  qc.search: every point of the collection, most similar
\* first
DenseRanking(qc, q) ==
    SelectSeq([i \in 1..3 |-> Uuid5(Similar(q)[i][1], Similar(q)[i][2])],
              LAMBDA id : id \in DOMAIN qc)

\* positions in the index of the stored documents of chunk_id cid
Stored(wi, cid) ==
    SelectSeq([i \in DOMAIN wi |-> i], LAMBDA i : wi[i].chunk_id = cid)

\* retrieve.py:49  s.search: the stored documents that match, best first
RECURSIVE SparseRanking(_, _)
SparseRanking(wi, keys) ==
    IF keys = <<>> THEN <<>>
    ELSE Stored(wi, WhooshId(keys[1][1], keys[1][2]))
         \o SparseRanking(wi, Tail(keys))

\* retrieve.py:133  reranker().predict(pairs): a score for each (question,
\* passage) pair from the two texts alone, of two levels
predict(ps) ==
    [i \in DOMAIN ps |->
        IF \E txt \in Relevant(ps[i][1]) :
              /\ Len(ps[i][2]) >= Len(txt)
              /\ SubSeq(ps[i][2], Len(ps[i][2]) - Len(txt) + 1, Len(ps[i][2]))
                    = txt
        THEN 1 ELSE 0]

\* main.py:189-199, retrieve.py:113-114  a question arrives; dense search
DenseSearch ==
    /\ r_pc = "idle"
    /\ Arrives
    /\ collection
    /\ \E q \in Queries :
          /\ question' = q
          /\ d' = dense_search(qdrant, DenseRanking(qdrant, q), dense_top_k)
    /\ r_pc' = "sparse"
    /\ s' = <<>> /\ fused' = <<>> /\ top_for_rerank' = <<>> /\ pairs' = <<>>
    /\ final_k' = 0 /\ final' = <<>> /\ results' = <<>>
    /\ mode' = "hybrid" /\ contexts' = <<>>
    /\ UNCHANGED <<delVars, ingVars, prev>>

\* main.py:189-203, retrieve.py:114  a question arrives while the server
\* has no collection: qc.search raises, and the request ends with the
\* HTTPException of main.py:203
DenseSearchFails ==
    /\ r_pc = "idle"
    /\ Arrives
    /\ ~collection
    /\ UNCHANGED <<delVars, ingVars, retrVars>>

\* retrieve.py:115  lexical search
Bm25Search ==
    /\ r_pc = "sparse"
    /\ index_dir
    /\ s' = bm25_search(whoosh, SparseRanking(whoosh, Matching(question)),
                        bm25_top_k)
    /\ r_pc' = "fuse"
    /\ UNCHANGED <<requests, delVars, ingVars, question, d, fused, top_for_rerank,
                   pairs, final_k, final, results, mode, contexts, prev>>

\* retrieve.py:118-119  fusion, and the first rerank_top_k candidates
Fuse ==
    /\ r_pc = "fuse"
    /\ \E seed \in SetOrders(d, s, k_rrf) :
          LET fu == rrf_fuse(d, s, k_rrf, seed)
          IN  /\ fused' = fu
              /\ top_for_rerank' = SliceTo(fu, rerank_top_k)
              /\ r_pc' = IF fu = <<>> THEN "predict" ELSE "pairs"
    /\ pairs' = <<>>
    /\ UNCHANGED <<requests, delVars, ingVars, question, d, s, final_k, final,
                   results, mode, contexts, prev>>

\* retrieve.py:123-130  the passage of the next candidate: each
\* _load_chunk_text opens a searcher of its own (:74), on the lexical
\* index as it is at that moment
LoadPassage ==
    /\ r_pc = "pairs"
    /\ index_dir
    /\ pairs' = Append(pairs,
                       <<question,
                         Passage(whoosh, top_for_rerank[Len(pairs) + 1])>>)
    /\ r_pc' = IF Len(pairs) + 1 = Len(top_for_rerank) THEN "predict"
               ELSE "pairs"
    /\ UNCHANGED <<requests, delVars, ingVars, question, d, s, fused, top_for_rerank,
                   final_k, final, results, mode, contexts, prev>>

\* retrieve.py:132-140, main.py:193  the cross-encoder has scored the
\* pairs (a blocking call, other requests being served meanwhile); the
\* scores are written into the candidates, which are sorted, and the
\* diversity head is taken for the k of the request
Retrieve ==
    /\ r_pc = "predict"
    /\ \E k \in 1..MaxK :
          LET scores == IF pairs # <<>> THEN predict(pairs) ELSE <<>>
              sorted == IF pairs # <<>>
                        THEN Rerank(top_for_rerank, scores)
                        ELSE top_for_rerank
              fin == _diverse_head(sorted, k)
          IN  /\ final_k' = k
              /\ fused' = Reranked(fused, scores)
              /\ top_for_rerank' = sorted
              /\ final' = fin
              /\ r_pc' = IF fin = <<>> THEN "responded" ELSE "load"
    /\ results' = <<>>
    /\ UNCHANGED <<requests, delVars, ingVars, question, d, s, pairs, mode, contexts,
                   prev>>

\* retrieve.py:142-153  the result of the next candidate of final, its
\* text loaded by a searcher of its own (:151, :74) from the lexical index
\* as it is at that moment; retrieve returns after the last
LoadText ==
    /\ r_pc = "load"
    /\ index_dir
    /\ results' = Append(results, ResultOf(whoosh, final[Len(results) + 1]))
    /\ r_pc' = IF Len(results) + 1 = Len(final) THEN "responded" ELSE "load"
    /\ UNCHANGED <<requests, delVars, ingVars, question, d, s, fused, top_for_rerank,
                   pairs, final_k, final, mode, contexts, prev>>

\* retrieve.py:47, :74, main.py:202-203  the directory holds no index when
\* retrieve opens a searcher, for the lexical search or for the text of a
\* candidate: the searcher raises and the request ends with the
\* HTTPException of main.py:203
RetrieveFails ==
    /\ r_pc \in {"sparse", "pairs", "load"}
    /\ ~index_dir
    /\ r_pc' = "idle"
    /\ question' = "none"
    /\ d' = <<>> /\ s' = <<>> /\ fused' = <<>> /\ top_for_rerank' = <<>>
    /\ pairs' = <<>> /\ final_k' = 0 /\ final' = <<>> /\ results' = <<>>
    /\ mode' = "hybrid" /\ contexts' = <<>>
    /\ UNCHANGED <<requests, delVars, ingVars, prev>>

\* main.py:194, :200-201  the hits filtered for the mode of the request
\* leave the server as the response, of which the server keeps nothing
Respond ==
    /\ r_pc = "responded"
    /\ r_pc' = "idle"
    /\ question' = "none"
    /\ d' = <<>> /\ s' = <<>> /\ fused' = <<>> /\ top_for_rerank' = <<>>
    /\ pairs' = <<>> /\ final_k' = 0 /\ final' = <<>> /\ results' = <<>>
    /\ mode' = "hybrid" /\ contexts' = <<>>
    /\ UNCHANGED <<requests, delVars, ingVars, prev>>

\* ------------------------------------------------------------------------
\* SpecIngest: uploads and ingestions, each backend call ending either way
\* SpecStore: SpecIngest and deletions
\* Spec: SpecStore and questions asked meanwhile
\* ------------------------------------------------------------------------

NextIngest ==
    \/ Upload
    \/ UploadOther
    \/ IngestStart
    \/ UpsertUnsupported
    \/ UpsertRead
    \/ UpsertNoChunks
    \/ UpsertNoVectors
    \/ UpsertDimMismatch
    \/ UpsertQdrant
    \/ UpsertQdrantFails
    \/ UpsertWhoosh
    \/ UpsertWhooshFails
    \/ IngestEnd

SpecIngest == Init /\ [][NextIngest]_vars

\* main.py:246  the query parameters of /delete
DeleteModes == {"collection", "points"}

\* main.py:245-270  a delete request arrives and makes its first call to
\* Qdrant: mode "points" deletes every point of the collection (:264),
\* any other mode drops the collection (:268).  When the call raises, the
\* request ends at :296 with nothing done.  What is yet to do follows from
\* the parameters: the collection made anew (:271-278, mode "collection"
\* with recreate), then the lexical index wiped (:281-292, wipe_whoosh)
Delete ==
    /\ del_pc = "idle"
    /\ Arrives
    /\ \E dmode \in DeleteModes, recreate \in BOOLEAN, wipe_whoosh \in BOOLEAN,
          raises \in BOOLEAN :
          /\ (dmode = "points" /\ ~collection) => raises
          /\ IF raises
             THEN /\ del_pc' = "idle"
                  /\ UNCHANGED <<qdrant, collection>>
             ELSE /\ qdrant' = <<>>
                  /\ collection' = (collection /\ dmode = "points")
                  /\ del_pc' =
                        IF dmode = "collection" /\ recreate
                        THEN (IF wipe_whoosh THEN "recreate_wipe"
                              ELSE "recreate")
                        ELSE IF wipe_whoosh THEN "wipe" ELSE "idle"
    /\ UNCHANGED <<index_dir, files, whoosh, ingest_log, upserts, i_pc, todo,
                   new_files, doc_path, doc_ver, chunkVars, info, replaced,
                   retrVars>>

\* main.py:271-278  recreate_collection makes the collection anew, empty;
\* when it raises the request ends at :296 and the collection stays
\* dropped
DeleteRecreate ==
    /\ del_pc \in {"recreate", "recreate_wipe"}
    /\ \E raises \in BOOLEAN :
          IF raises
          THEN /\ del_pc' = "idle"
               /\ UNCHANGED <<qdrant, collection>>
          ELSE /\ qdrant' = <<>>
               /\ collection' = TRUE
               /\ del_pc' = IF del_pc = "recreate_wipe" THEN "wipe"
                            ELSE "idle"
    /\ UNCHANGED <<requests, index_dir, files, whoosh, ingest_log, upserts,
                   i_pc, todo, new_files, doc_path, doc_ver, chunkVars, info,
                   replaced, retrVars>>

\* main.py:281-286  shutil.rmtree removes the directory of the lexical
\* index, and the index with it; when it raises, the directory is as it
\* was or without its index, and the request ends at :290
DeleteWhoosh ==
    /\ del_pc = "wipe"
    /\ \E raises \in BOOLEAN :
          /\ index_dir' \in IF raises THEN {index_dir, FALSE} ELSE {FALSE}
          /\ del_pc' = IF raises THEN "idle" ELSE "ensure"
    /\ whoosh' = IF index_dir' THEN whoosh ELSE <<>>
    /\ UNCHANGED <<requests, collection, files, qdrant, ingest_log, upserts,
                   i_pc, todo, new_files, doc_path, doc_ver, chunkVars, info,
                   replaced, retrVars>>

\* main.py:288-294, ingest.py:441-448  ensure_whoosh makes the directory
\* and creates an empty index in it; when it raises the directory stays
\* without an index (:290); return
DeleteEnsureWhoosh ==
    /\ del_pc = "ensure"
    /\ \E raises \in BOOLEAN : index_dir' = ~raises
    /\ del_pc' = "idle"
    /\ UNCHANGED <<requests, collection, files, qdrant, whoosh, ingest_log,
                   upserts, i_pc, todo, new_files, doc_path, doc_ver,
                   chunkVars, info, replaced, retrVars>>

\* SpecStore: uploads, ingestions and deletions
NextStore ==
    \/ NextIngest
    \/ Delete
    \/ DeleteRecreate
    \/ DeleteWhoosh
    \/ DeleteEnsureWhoosh

SpecStore == Init /\ [][NextStore]_vars

\* Spec: every request of SpecStore, and questions asked meanwhile
Next ==
    \/ NextStore
    \/ DenseSearch
    \/ DenseSearchFails
    \/ Bm25Search
    \/ Fuse
    \/ LoadPassage
    \/ Retrieve
    \/ LoadText
    \/ RetrieveFails
    \/ Respond

Spec == Init /\ [][Next]_vars

\* ------------------------------------------------------------------------
\* Claims about rrf_fuse (SpecFuse)
\* ------------------------------------------------------------------------

DocsOf(items) == {items[i].doc_id : i \in DOMAIN items}

\* the fused entry of pid
FusedOf(list, pid) == list[CHOOSE i \in DOMAIN list : list[i].id = pid]

\* C1: rrf_fuse returns exactly one fused candidate for every id of either
\* list, scored 1/(60 + rank_dense) + 1/(60 + rank_sparse) with 0-based
\* ranks and rank 10000 for the side that lacks the id, and the list is in
\* descending order of that score.
C1_FuseOnePerIdScoredSorted ==
    r_pc \in {"fused", "raised"} =>
        /\ IdsOf(fused) = IdsOf(d) \cup IdsOf(s)
        /\ Len(fused) = Cardinality(IdsOf(d) \cup IdsOf(s))
        /\ \A i \in DOMAIN fused :
              LET a == 60 + PosOf(d, fused[i].id)
                  b == 60 + PosOf(s, fused[i].id)
              IN  CmpFrac(fused[i].rrf.num, fused[i].rrf.den, a + b, a * b) = 0
        /\ \A i, j \in DOMAIN fused :
              i < j => RrfGe(fused[i].rrf, fused[j].rrf)

\* C1 witness: a fused list holding an id of both lists, an id of the
\* dense list only and an id of the sparse list only
C1_Witness ==
    /\ r_pc = "fused"
    /\ Len(fused) = 3
    /\ \E x, y, z \in IdsOf(fused) :
          /\ x \in IdsOf(d) /\ x \in IdsOf(s)
          /\ y \in IdsOf(d) /\ y \notin IdsOf(s)
          /\ z \notin IdsOf(d) /\ z \in IdsOf(s)

\* C4: two fused candidates of equal fusionScore are in the order of their
\* dense ranks (an id absent from the dense list ranks 10000 there), so
\* the order does not depend on the run.
C4_TieBrokenByDenseRank ==
    r_pc = "fused" =>
        \A i, j \in DOMAIN fused :
            (i < j /\ CmpScore(fused[i].rrf, fused[j].rrf) = 0)
                => PosOf(d, fused[i].id) <= PosOf(d, fused[j].id)

\* C5: moving a candidate to a better rank on one side, the other side
\* unchanged, never decreases its fusionScore.
C5_RrfMonotonic ==
    r_pc = "raised" =>
        RrfGe(FusedOf(fused, prev.pid).rrf, FusedOf(prev.fused, prev.pid).rrf)

\* C5 witness: a candidate known to the sparse side only enters the dense
\* list at rank 0 and its score grew
C5_Witness ==
    /\ r_pc = "raised"
    /\ PosOf(prev.d, prev.pid) = AbsentRank
    /\ PosOf(d, prev.pid) = 0
    /\ s = prev.s
    /\ PosOf(s, prev.pid) = 1
    /\ RrfGt(FusedOf(fused, prev.pid).rrf, FusedOf(prev.fused, prev.pid).rrf)

\* ------------------------------------------------------------------------
\* Claims about _diverse_head (SpecDiverse)
\* ------------------------------------------------------------------------

\* C2: for 1 <= finalK <= number of distinct doc_ids of the input, the
\* returned items have pairwise different doc_id.
C2_DiverseDistinctDocs ==
    (/\ r_pc = "diverse_done"
     /\ final_k >= 1
     /\ final_k <= Cardinality(DocsOf(top_for_rerank)))
        => \A i, j \in DOMAIN final :
              i # j => final[i].doc_id # final[j].doc_id

\* C2 witness: two results were asked of a list whose first two items
\* share a document; the second of them was skipped for the third item
C2_Witness ==
    /\ r_pc = "diverse_done"
    /\ final_k = 2
    /\ Len(top_for_rerank) = 3
    /\ top_for_rerank[1].doc_id = top_for_rerank[2].doc_id
    /\ final = <<top_for_rerank[1], top_for_rerank[3]>>

\* C3: the second pass fills the free slots with the candidates the first
\* pass skipped, so _diverse_head returns min(finalK, len(items)) results
\* and no candidate twice.
C3_SecondPassFillsWithSkipped ==
    r_pc = "diverse_done" =>
        /\ Len(final) = Min(final_k, Len(top_for_rerank))
        /\ \A i, j \in DOMAIN final : i # j => final[i].id # final[j].id

\* ------------------------------------------------------------------------
\* Claims about _filter_mode (SpecFilter)
\* ------------------------------------------------------------------------

\* C6: for mode text or table the results of that content_type are
\* returned in their order when there is one, the whole list when there is
\* none; any other mode returns the list unchanged.
C6_SoftModeFilter ==
    r_pc = "filter_done" =>
        LET ofMode == SelectSeq(results, LAMBDA r : r.content_type = mode)
        IN  IF mode \in {"text", "table"} /\ ofMode # <<>>
            THEN contexts = ofMode
            ELSE contexts = results

\* C6 witness: mode table on a non-empty result list without a table chunk
\* came back whole
C6_Witness ==
    /\ r_pc = "filter_done"
    /\ mode = "table"
    /\ Len(results) >= 2
    /\ \A i \in DOMAIN results : results[i].content_type = "text"
    /\ contexts = results

\* ------------------------------------------------------------------------
\* Claims about chunk_blocks (SpecChunk)
\* ------------------------------------------------------------------------

\* the chunks of the call before the filter of ingest.py:266
Unfiltered ==
    TextChunks(mixed_blocks, min_tok, max_tok, overlap)
    \o TableChunks(mixed_blocks, min_tok, max_tok)

\* C9: every chunk chunk_blocks returns has non-empty text of at least 4
\* estimated tokens, and the chunk_index values are 0, 1, ..., n-1 in list
\* order.
C9_ChunksAboveFloorDenseIndex ==
    i_pc = "chunk_done" =>
        \A i \in DOMAIN chunks :
            /\ chunks[i].text # <<>>
            /\ Max(1, (WordCount(chunks[i].text) * 13) \div 10) >= 4
            /\ chunks[i].chunk_index = i - 1

\* C9 witness: a text chunk under the floor was dropped and the table chunk
\* behind it got chunk_index 0
C9_Witness ==
    /\ i_pc = "chunk_done"
    /\ Len(Unfiltered) = 2
    /\ Unfiltered[1].content_type = "text"
    /\ tokenize_len(Unfiltered[1].text) < 4
    /\ Len(chunks) = 1
    /\ chunks[1].content_type = "table"
    /\ chunks[1].chunk_index = 0

\* C9 witness of two kept chunks, text then table
C9_WitnessTwo ==
    /\ i_pc = "chunk_done"
    /\ Len(chunks) = 2
    /\ chunks[1].content_type = "text"
    /\ chunks[2].content_type = "table"


\* ------------------------------------------------------------------------
\* Claims about the hits of a query (Spec)
\* ------------------------------------------------------------------------

\* the content_type the vector index holds for the chunk of hit h, "none"
\* when it holds no such chunk
IngestedType(h) ==
    LET id == Uuid5(h.doc_id, Get(h, "chunk_index", -1))
    IN  IF id \in DOMAIN qdrant THEN qdrant[id].content_type ELSE "none"

\* C7: every hit of the dense search and of the lexical search, and every
\* result of retrieve, carries the content_type its chunk was ingested
\* with: "table" for a table chunk, "text" for a text chunk.
C7_HitsCarryIngestedContentType ==
    [][/\ (r_pc = "idle" /\ r_pc' = "sparse") =>
             \A i \in DOMAIN d' :
                Get(d'[i], "content_type", "none") = IngestedType(d'[i])
       /\ (r_pc = "sparse" /\ r_pc' = "fuse") =>
             \A i \in DOMAIN s' :
                IngestedType(s'[i]) # "none" =>
                   Get(s'[i], "content_type", "none") = IngestedType(s'[i])
       /\ (r_pc = "load" /\ Len(results') = Len(results) + 1) =>
             \A i \in {Len(results')} :
                IngestedType(final'[i]) # "none" =>
                   results'[i].content_type = IngestedType(final'[i])]_vars

\* the passage C8 describes for candidate t
DescribedPassage(t) ==
    <<"[", t.doc_title, "]", " ">> \o Get(t, "section_title", <<>>)
    \o <<"\n">>
    \o (IF IngestedType(t) = "table" THEN <<"[TABLE]\n">> ELSE <<>>)
    \o _load_chunk_text(whoosh, _whoosh_id_from_meta(t))

\* retrieve.py:123-130  the passages are complete
PairsBuilt == r_pc \in {"fuse", "pairs"} /\ r_pc' = "predict"

\* C8: the passage paired with the question for each of the top
\* rerank_top_k fused candidates is "[doc_title] section_title\n", then
\* "[TABLE]\n" when and only when the candidate's chunk is a table chunk,
\* then the chunk text.
C8_TablePrefixOnTableChunks ==
    [][/\ PairsBuilt => Len(pairs') = Min(Len(fused'), rerank_top_k)
       /\ (r_pc = "pairs" /\ Len(pairs') = Len(pairs) + 1) =>
             /\ pairs'[Len(pairs')][1] = question
             /\ pairs'[Len(pairs')][2] = DescribedPassage(fused[Len(pairs')])]_vars

\* ------------------------------------------------------------------------
\* Claims about upsert (SpecIngest)
\* ------------------------------------------------------------------------

\* the chunk ids of the stored documents, in docnum order
ChunkIdsOf(wi) == [i \in DOMAIN wi |-> wi[i].chunk_id]

NoDuplicates(seq) ==
    \A i, j \in DOMAIN seq : seq[i] = seq[j] => i = j

\* C10: an upsert of a document whose content is that of its preceding
\* successful upsert leaves the vector index and the lexical index with
\* the chunk ids they held, each stored once; the ids of the batch are
\* those computed from doc_id and chunk_index alone.
C10_UpsertTwiceSameIds ==
    [][/\ (i_pc = "read" /\ i_pc' = "whoosh_write"
           /\ upserts[doc_path] = doc_ver) =>
             /\ DOMAIN qdrant' = DOMAIN qdrant
             /\ \A i \in DOMAIN chunks' :
                   Uuid5(sha1(doc_path'), i - 1) \in DOMAIN qdrant'
       /\ (i_pc = "whoosh_write" /\ replaced' = doc_ver) =>
             /\ Range(ChunkIdsOf(whoosh')) = Range(ChunkIdsOf(whoosh))
             /\ Len(whoosh') = Len(whoosh)
             /\ NoDuplicates(ChunkIdsOf(whoosh'))
             /\ \A i \in DOMAIN chunks :
                   WhooshId(sha1(doc_path), i - 1)
                      \in Range(ChunkIdsOf(whoosh'))]_vars

\* a two-chunk document has been upserted again with unchanged content
C10_Witness ==
    /\ i_pc = "next"
    /\ replaced = doc_ver
    /\ Len(chunks) = 2
    /\ info.reason = "ok"

\* the value upsert returned is a dict with the given reason
Returned(i, reason) == i # <<>> /\ "reason" \in DOMAIN i /\ i.reason = reason

\* upsert raised the given exception
Threw(i, e) == i # <<>> /\ "raised" \in DOMAIN i /\ i.raised = e

\* one call of upsert has ended in this step
UpsertEnds == Len(new_files') = Len(new_files) + 1

\* C11: when upsert ends because the document's format is unsupported, it
\* produced no chunks (no_chunks), the embedding returned nothing
\* (no_vectors) or the vectors' length differs from the configured one (an
\* exception is raised), both indexes are as they were before the call,
\* and the no_chunks and no_vectors outcomes report a chunk count of 0.
C11_NonOkWritesNothing ==
    [][/\ (i_pc = "next" /\ i_pc' = "read") =>
             (qdrant' = qdrant /\ whoosh' = whoosh)
       /\ (/\ i_pc \in {"next", "read"}
           /\ UpsertEnds
           /\ \/ Returned(info', "no_chunks")
              \/ Returned(info', "no_vectors")
              \/ Threw(info', "ValueError"))
          => /\ qdrant' = qdrant
             /\ whoosh' = whoosh
             /\ Threw(info', "ValueError") \/ info'.chunks = 0]_vars

\* an unsupported file was the last of a batch whose earlier file filled
\* both indexes
C11_Witness ==
    /\ i_pc = "next"
    /\ doc_path = OtherPath
    /\ Threw(info, "ValueError")
    /\ new_files # <<>> /\ new_files[Len(new_files)].failed
    /\ qdrant # <<>> /\ whoosh # <<>>

\* the files of DATA_DIR an ingestion that starts now walks over
BatchFiles == {p \in DataDir : files[p] # "none"}

\* the documents new_files reports, in order
NamesOf(nf) == [i \in DOMAIN nf |-> nf[i].name]

\* upsert raised an exception
ThrewAny(i) == i # <<>> /\ "raised" \in DOMAIN i

\* a call of upsert that ends moves its file from todo to new_files, marked
\* failed exactly when upsert raised
AttemptReported ==
    UpsertEnds =>
        /\ todo' = Tail(todo)
        /\ new_files' = Append(new_files, [name |-> Head(todo),
                                           failed |-> ThrewAny(info')])

\* an ingestion starts with the files DATA_DIR holds, each once
BatchListed ==
    (i_pc = "idle" /\ i_pc' # "idle") =>
        /\ Range(todo') = BatchFiles
        /\ NoDuplicates(todo')
        /\ new_files' = <<>>

\* until it returns, the attempted files followed by the files still to
\* attempt are the batch it started with
BatchKept ==
    (i_pc # "idle" /\ i_pc' # "idle") =>
        NamesOf(new_files') \o todo' = NamesOf(new_files) \o todo

\* an ingestion returns after the last file; the log gains no name but
\* those of the files that did not fail
BatchRecorded ==
    (i_pc # "idle" /\ i_pc' = "idle") =>
        /\ todo = <<>>
        /\ ingest_log'.names \subseteq
              ingest_log.names \cup
                 {new_files[i].name : i \in {j \in DOMAIN new_files :
                                               new_files[j].failed = FALSE}}
        /\ \A i \in DOMAIN new_files :
              (new_files[i].failed /\ new_files[i].name \notin ingest_log.names)
                 => new_files[i].name \notin ingest_log'.names

C12_Steps == BatchListed /\ BatchKept /\ AttemptReported /\ BatchRecorded

\* C12: in an ingestion of several documents a failure of one document
\* never aborts the batch: every file of the batch is attempted exactly
\* once whichever other files fail, each failure is reported for its own
\* document, and only the documents that did not fail are recorded as
\* ingested.
C12_FailuresStayPerDocument == [][C12_Steps]_vars

\* the first of three files failed and the two after it were ingested
C12_Witness ==
    /\ i_pc = "next" /\ todo = <<>>
    /\ Len(new_files) = 3
    /\ new_files[1].failed
    /\ ~new_files[2].failed /\ ~new_files[3].failed
    /\ info.reason = "ok"

\* the chunk ids of a batch in the lexical index
BatchCids(doc_id, cs) == {WhooshId(doc_id, cs[i].chunk_index) : i \in DOMAIN cs}

\* the vector index qc2 is qc with every chunk of the batch stored under
\* its point id, and nothing else changed
BatchInQdrant(qc, qc2, doc_id, doc_title, cs) ==
    /\ DOMAIN qc2 = DOMAIN qc \cup BatchIds(doc_id, cs)
    /\ \A i \in DOMAIN cs :
          qc2[Uuid5(doc_id, cs[i].chunk_index)]
             = Payload(doc_id, doc_title, cs[i])
    /\ \A id \in DOMAIN qc \ BatchIds(doc_id, cs) : qc2[id] = qc[id]

\* the lexical index wi2 is wi with every chunk of the batch stored, once,
\* in place of what wi stored under the batch's chunk ids, and nothing
\* else changed
BatchInWhoosh(wi, wi2, doc_id, doc_title, cs) ==
    /\ Range(wi2) =
          {wi[j] : j \in {x \in DOMAIN wi :
                            wi[x].chunk_id \notin BatchCids(doc_id, cs)}}
          \cup {WhooshDoc(doc_id, doc_title, cs[i]) : i \in DOMAIN cs}
    /\ \A i \in DOMAIN cs :
          Cardinality({j \in DOMAIN wi2 :
                         wi2[j].chunk_id = WhooshId(doc_id, cs[i].chunk_index)})
             = 1

DenseReturned ==
    r_pc \in {"sparse", "fuse", "pairs", "predict", "load", "responded"}

\* retrieve.py:115  bm25_search has been called
LexicalIssued == r_pc \in {"fuse", "pairs", "predict", "load", "responded"}

\* retrieve.py:118  rrf_fuse has been called
FusionStarted == r_pc \in {"pairs", "predict", "load", "responded"}

\* C14: in retrieve the dense and the lexical search are issued without
\* one blocking the other: the lexical search is under way before retrieve
\* waits for the dense search, so retrieve is never at a point where the
\* dense search has returned and the lexical search is still to be
\* issued; and fusion starts only after both have completed.
C14_SearchesIssuedTogether ==
    /\ DenseReturned => LexicalIssued
    /\ FusionStarted => (DenseReturned /\ LexicalIssued)
\* the text chunks chunk_blocks packed for the blocks just chunked, before
\* the filter of short chunks
Packed == TextChunks(mixed_blocks, min_tok, max_tok, overlap)

\* the non-empty sub-blocks the packer was given
SubBlocks == SelectSeq(Structured(mixed_blocks), LAMBDA b : Strip(b.text) # <<>>)

\* the chunk is one sub-block that alone exceeds max_tok
SoleOversized(c) ==
    /\ tokenize_len(c.text) > max_tok
    /\ \E i \in DOMAIN SubBlocks : Strip(SubBlocks[i].text) = c.text

\* C15: for min_tok <= max_tok every text chunk the packer emits has an
\* estimated token count within [min_tok, max_tok], or else is a single
\* sub-block that alone exceeds max_tok.
C15_TextChunkWithinBudget ==
    (i_pc = "chunk_done" /\ min_tok <= max_tok) =>
        \A i \in DOMAIN Packed :
            \/ /\ min_tok <= tokenize_len(Packed[i].text)
               /\ tokenize_len(Packed[i].text) <= max_tok
            \/ SoleOversized(Packed[i])
EndsWith(str, suffix) ==
    /\ Len(suffix) <= Len(str)
    /\ SubSeq(str, Len(str) - Len(suffix) + 1, Len(str)) = suffix

\* the texts of sub-blocks j..m joined as the packer joins a buffer
JoinedSubBlocks(j, m) ==
    Join(<<"\n">>, [x \in 1..(m - j + 1) |-> Strip(SubBlocks[j + x - 1].text)])

\* what chunk k holds before sub-blocks j..m: nothing, or a line that is
\* an end of the chunk before it
OverlapOnly(k, j, m) ==
    LET body == JoinedSubBlocks(j, m)
        text == Packed[k].text
        lead == SubSeq(text, 1, Len(text) - Len(body))
    IN  \/ lead = <<>>
        \/ /\ k > 1
           /\ lead[Len(lead)] = "\n"
           /\ EndsWith(Packed[k - 1].text, SubSeq(lead, 1, Len(lead) - 1))

\* chunks k.. hold sub-blocks j.. in order, each sub-block whole and once,
\* with nothing but overlap before them
RECURSIVE Reconstructs(_, _)
Reconstructs(k, j) ==
    IF k > Len(Packed) THEN j > Len(SubBlocks)
    ELSE \E m \in j..Len(SubBlocks) :
            /\ EndsWith(Packed[k].text, JoinedSubBlocks(j, m))
            /\ OverlapOnly(k, j, m)
            /\ Reconstructs(k + 1, m + 1)

\* C16: the text packer drops no sub-block: every non-empty sub-block is
\* whole inside an emitted text chunk (before the filter of short chunks),
\* the sub-blocks follow the source order across the chunks, and the
\* chunks without their overlap give back the text.
C16_NoSubBlockDropped ==
    i_pc = "chunk_done" => Reconstructs(1, 1)

\* two sub-blocks went into two chunks, the second after an overlap tail
C16_Witness ==
    /\ i_pc = "chunk_done"
    /\ Len(SubBlocks) = 2
    /\ Len(Packed) = 2
    /\ Packed[2].text # Strip(SubBlocks[2].text)
    /\ Reconstructs(1, 1)
\* the table blocks chunk_blocks chunks
TableBlocks ==
    SelectSeq(mixed_blocks,
              LAMBDA b : b.type = "table" /\ Get(b, "rows", <<>>) # <<>>)

\* the row groups of a table block
RowGroups(tb) ==
    _chunk_table_rows(tb.rows, TableMinTokens(min_tok), TableMaxTokens(max_tok))

\* the rows of the groups after their first row, one group after the other
RECURSIVE DataRowsOf(_)
DataRowsOf(groups) ==
    IF groups = <<>> THEN <<>>
    ELSE Tail(groups[1]) \o DataRowsOf(Tail(groups))

\* C17: for a table with at least one row every row group of
\* _chunk_table_rows starts with the header row (row 0), and the data rows
\* keep the source order inside a group and from group to group, each
\* data row being in exactly one group.
C17_HeaderFirstRowsInOrder ==
    i_pc = "chunk_done" =>
        \A t \in DOMAIN TableBlocks :
            /\ \A g \in DOMAIN RowGroups(TableBlocks[t]) :
                   /\ RowGroups(TableBlocks[t])[g] # <<>>
                   /\ RowGroups(TableBlocks[t])[g][1] = TableBlocks[t].rows[1]
            /\ DataRowsOf(RowGroups(TableBlocks[t])) = Tail(TableBlocks[t].rows)

\* a table of three different data rows was cut into three groups
C17_Witness ==
    /\ i_pc = "chunk_done"
    /\ \E t \in DOMAIN TableBlocks :
          /\ Len(RowGroups(TableBlocks[t])) = 3
          /\ NoDuplicates(TableBlocks[t].rows)
          /\ RowGroups(TableBlocks[t])[2] =
                <<TableBlocks[t].rows[1], TableBlocks[t].rows[3]>>
StartsWith(str, prefix) ==
    /\ Len(prefix) <= Len(str)
    /\ SubSeq(str, 1, Len(prefix)) = prefix

\* the last overlap part of a chunk's characters, as it stands at the
\* start of the chunk after it
OverlapTail(c) == Strip(SliceLast(c.text, KeepChars(c.text, overlap)))

\* C18: chunking a document of 3 pages, no tables and 1200 words in all
\* with min_tok = 400 and max_tok = 800 yields exactly 2 text chunks, and
\* the second chunk begins with the overlap tail of the first.
C18_ThreePagesTwoChunks ==
    (/\ i_pc = "chunk_done"
     /\ mixed_blocks \in LongDocs
     /\ min_tok = 400 /\ max_tok = 800) =>
        /\ Len(Packed) = 2
        /\ Len(chunks) = 2
        /\ OverlapTail(Packed[1]) # <<>>
        /\ StartsWith(Packed[2].text, OverlapTail(Packed[1]))
\* the second chunk as the claimed seeding gives it when the first chunk
\* holds the sub-blocks before j and the second the sub-blocks j..m: the
\* last KeepChars characters of the flushed text, none when KeepChars is
\* 0, then the sub-blocks
SeededChunk(j, m) ==
    LET old == Packed[1].text
        tail == SliceLastNoneAtZero(old, KeepChars(old, overlap))
    IN  IF Strip(tail) = <<>> THEN JoinedSubBlocks(j, m)
        ELSE Strip(Join(<<"\n">>, <<tail, JoinedSubBlocks(j, m)>>))

\* C19: when the packer flushes a buffer because the next sub-block would
\* exceed max_tok, the next buffer is seeded with exactly the last
\* floor(overlap * L) characters of the flushed buffer's text of length L,
\* so the next chunk begins with that suffix and carries over no more;
\* when floor(overlap * L) is 0 nothing of the flushed buffer is carried
\* into the next chunk.  Stated for the first flush of a document, whose
\* buffer is the first chunk's text.
C19_OverlapTailExact ==
    (i_pc = "chunk_done" /\ Len(Packed) >= 2) =>
        \E j \in 2..Len(SubBlocks) : \E m \in j..Len(SubBlocks) :
            /\ Packed[1].text = JoinedSubBlocks(1, j - 1)
            /\ Packed[2].text = SeededChunk(j, m)
\* for each sub-block of SubBlocks, in order: the page of the text block
\* it was cut from and the pages that block's page-marker lines name
RECURSIVE SubBlockSources(_)
SubBlockSources(blocks) ==
    IF blocks = <<>> THEN <<>>
    ELSE LET b == blocks[1]
             subs == IF b.type = "text" /\ Strip(Get(b, "text", <<>>)) # <<>>
                     THEN SelectSeq(split_text_structure(b.text),
                                    LAMBDA x : Strip(x.text) # <<>>)
                     ELSE <<>>
             marked == {MarkerPage(b.text[y]) :
                          y \in {z \in DOMAIN b.text : b.text[z] \in PageMarkers}}
         IN  [i \in DOMAIN subs |-> [page |-> b.page, marked |-> marked]]
             \o SubBlockSources(Tail(blocks))

\* chunks k.. hold sub-blocks j.. and each chunk's pages are the pages of
\* the blocks its sub-blocks come from; where a block has page-marker
\* lines the pages they name count as its pages too
RECURSIVE PagesOfSources(_, _)
PagesOfSources(k, j) ==
    IF k > Len(Packed) THEN j > Len(SubBlocks)
    ELSE \E m \in j..Len(SubBlocks) :
            /\ EndsWith(Packed[k].text, JoinedSubBlocks(j, m))
            /\ OverlapOnly(k, j, m)
            /\ LET src == SubBlockSources(mixed_blocks)
                   pages == Range(Packed[k].pages)
               IN  /\ \A x \in j..m :
                          IF src[x].marked = {} THEN src[x].page \in pages
                          ELSE pages \cap ({src[x].page} \cup src[x].marked)
                                  # {}
                   /\ pages \subseteq
                         UNION {{src[x].page} \cup src[x].marked : x \in j..m}
            /\ PagesOfSources(k + 1, m + 1)

\* C20: a text chunk's pages is the set of the pages whose sub-blocks were
\* packed into it: a chunk built from sub-blocks of the text block of page
\* p, with or without a page-marker line in the text, has p in its pages,
\* and has no page from which it holds no sub-block.
C20_ChunkPagesAreSourcePages ==
    i_pc = "chunk_done" => PagesOfSources(1, 1)

\* the number of entries of a heading trail joined by " / "
HeadingEntries(h) ==
    IF h = <<>> THEN 0
    ELSE 1 + Cardinality({i \in 1..(Len(h) - 2) :
                             SubSeq(h, i, i + 2) = <<" ", "/", " ">>})

\* chunks k.. hold sub-blocks j.. and each chunk's heading is the trail of
\* one of its sub-blocks, cut at HeadingCap characters
RECURSIVE HeadingsOfSources(_, _)
HeadingsOfSources(k, j) ==
    IF k > Len(Packed) THEN j > Len(SubBlocks)
    ELSE \E m \in j..Len(SubBlocks) :
            /\ EndsWith(Packed[k].text, JoinedSubBlocks(j, m))
            /\ OverlapOnly(k, j, m)
            /\ \E x \in j..m :
                  Packed[k].heading = SliceTo(SubBlocks[x].heading, HeadingCap)
            /\ HeadingsOfSources(k + 1, m + 1)

\* C21: a text chunk's heading has at most 3 heading entries, the most
\* recent entries of the heading stack at the time of its sub-blocks,
\* joined by " / " and cut at 300 characters, however many sub-blocks
\* were packed into the chunk.
C21_HeadingAtMostThreeEntries ==
    i_pc = "chunk_done" =>
        /\ \A k \in DOMAIN Packed : HeadingEntries(Packed[k].heading) <= 3
        /\ HeadingsOfSources(1, 1)

\* the text and table chunks of the blocks just chunked, before the filter
Unfloored == Packed \o TableChunks(mixed_blocks, min_tok, max_tok)

TextsOf(cs) == [i \in DOMAIN cs |-> cs[i].text]

\* C22: the token estimate of the chunker and of the filter of chunks
\* below 4 tokens is max(1, round(wordCount * 1.3)), a product with a
\* fractional part of 0.5 or more being rounded up: every chunk text is
\* estimated so, and the chunks kept are those whose rounded estimate is
\* at least 4.
C22_EstimateRounds ==
    i_pc = "chunk_done" =>
        /\ \A k \in DOMAIN Unfloored :
              tokenize_len(Unfloored[k].text)
                 = TokenizeLenRound(Unfloored[k].text)
        /\ TextsOf(chunks) =
              TextsOf(SelectSeq(Unfloored,
                        LAMBDA c : TokenizeLenRound(c.text) >= MinChunkTokens))

\* the number of columns of a table: the cells of its widest row
ActualCols(tb) ==
    CHOOSE c \in {Len(tb.rows[i]) : i \in DOMAIN tb.rows} :
        \A i \in DOMAIN tb.rows : Len(tb.rows[i]) <= c

\* C23: the markdown of a table chunk shows of every row of its row group
\* the first min(c, 12) columns, c being the table's number of columns:
\* columns are cut beyond the 12th only, also when the table block has no
\* column count (missing or 0) or a row is wider than the header; the
\* chunk's rows are the full group, header row included.
C23_TableRenderCapsAtTwelve ==
    i_pc = "chunk_done" =>
        \A k \in DOMAIN TableChunks(mixed_blocks, min_tok, max_tok) :
            LET c == TableChunks(mixed_blocks, min_tok, max_tok)[k]
            IN  \E t \in DOMAIN TableBlocks :
                  \E g \in DOMAIN RowGroups(TableBlocks[t]) :
                     /\ c.table_rows = RowGroups(TableBlocks[t])[g]
                     /\ c.text = _render_table_markdown(
                                     RowGroups(TableBlocks[t])[g],
                                     Min(ActualCols(TableBlocks[t]),
                                         MaxTableCols))

\* the chunk a hit, candidate or result stands for
ChunkOf(h) == <<h.doc_id, Get(h, "chunk_index", -1)>>

\* C24: within one retrieve call a chunk returned by the dense and by the
\* lexical search is one candidate of the fusion: the fused list holds it
\* exactly once, scored with its real rank on both sides, both backends
\* naming a chunk by the same id.
C24_SameChunkOneCandidate ==
    r_pc = "responded" =>
        \A i \in DOMAIN d : \A j \in DOMAIN s :
            ChunkOf(d[i]) = ChunkOf(s[j]) =>
                /\ d[i].id = s[j].id
                /\ Cardinality({x \in DOMAIN fused :
                                  ChunkOf(fused[x]) = ChunkOf(d[i])}) = 1
                /\ \A x \in DOMAIN fused :
                      ChunkOf(fused[x]) = ChunkOf(d[i]) =>
                         CmpFrac(fused[x].rrf.num, fused[x].rrf.den,
                                 RrfScore(k_rrf, i - 1, j - 1).num,
                                 RrfScore(k_rrf, i - 1, j - 1).den) = 0

\* C25: the list returned by retrieve never holds the same chunk twice:
\* no two results have the same chunk_id "{doc_id}:{chunk_index}".
C25_NoChunkTwice ==
    r_pc = "responded" =>
        \A i \in DOMAIN results : \A j \in DOMAIN results :
            results[i].chunk_id = results[j].chunk_id => i = j

\* the (doc_id, chunk_index) keys of the points of the vector index
DenseKeys == {<<qdrant[id].doc_id, qdrant[id].chunk_index>> : id \in DOMAIN qdrant}

\* the (doc_id, chunk_index) keys of the documents of the lexical index
LexicalKeys == {<<whoosh[i].chunk_id.doc_id, whoosh[i].chunk_id.chunk_index>> : i \in DOMAIN whoosh}

\* C26: in every state reached by upserts and deletions, between the
\* steps of an upsert and after an upsert or deletion that failed midway
\* included, the vector index and the lexical index hold the same
\* (doc_id, chunk_index) keys, and the text of every point of the vector
\* index loads from the lexical index and is not empty.
C26_IndexesHoldSameKeys ==
    /\ DenseKeys = LexicalKeys
    /\ \A id \in DOMAIN qdrant :
          _load_chunk_text(whoosh, WhooshId(qdrant[id].doc_id,
                                            qdrant[id].chunk_index)) # <<>>

\* the points the vector index holds for a document
PersistedDense(doc_id) == {qdrant[id] : id \in {x \in DOMAIN qdrant : qdrant[x].doc_id = doc_id}}

\* the stored documents the lexical index holds for a document
PersistedLexical(doc_id) == {whoosh[i] : i \in {j \in DOMAIN whoosh : whoosh[j].doc_id = doc_id}}

\* C27: when an upsert has returned ok, each index holds for the doc_id
\* exactly the chunks of that upsert: after a re-ingestion that yields
\* fewer chunks, no chunk of the earlier ingestion with a chunk_index at
\* or above the new count is left.
C27_OnlyLatestChunksPersisted ==
    (i_pc = "next" /\ Returned(info, "ok")) =>
        /\ PersistedDense(sha1(doc_path))
              = {Payload(sha1(doc_path), doc_path, chunks[i]) : i \in DOMAIN chunks}
        /\ PersistedLexical(sha1(doc_path))
              = {WhooshDoc(sha1(doc_path), doc_path, chunks[i]) : i \in DOMAIN chunks}


====
